---- MODULE Spec2Model ----
(***************************************************************************)
(* A model of cv-tailor's experience-selection and page-budget engine,     *)
(* backend/agents/draft_selector.py: select_experiences is a sequential    *)
(* operation over the user's pool; each step below is one section of it.   *)
(* Text is a sequence of one-character strings, so that lower(), strip(),  *)
(* split(), slicing and the `in` substring test are computed, not assumed. *)
(* Scores are integers in thousandths (0.08 is 80); uuids are integers.    *)
(***************************************************************************)
EXTENDS Integers, Sequences, FiniteSets, TLC

\* ------------------------------------------------------------------ text

\* Python None in an optional text column or JD field ("" is <<>>).
None == <<"None">>

\* A NULL uuid column (variant_group_id, upload_source_id).
NoId == 0

\* A NULL date column.
NoDate == 0

\* embedding IS NULL
NoEmbedding == 0

\* settings.variant_threshold and settings.near_duplicate_threshold, in
\* thousandths
variant_threshold == 750

near_duplicate_threshold == 920

\* LIMIT 5 of _find_similar
FindSimilarLimit == 5

\* Existing rows the engine searches.
MaxPool == 2

\* uuid4() values handed out.
MaxStored == 3

\* POST /api/tailor/run requests in one process.
MaxRequests == 3

\* Largest max_retries given to retry_openai.
MaxRetries == 3

\* Capacity of the embedding cache: 2_000 in embedder.py:17, scaled down so
\* that a full cache is reached.
_CACHE_MAX == 2

\* Distinct texts embedded, and embedding API calls in flight at once.
MaxTexts == 3

MaxCalls == 2

\* No DeduplicationResult yet.
NoResult ==
    [action |-> "none", existing_id |-> NoId, similarity_score |-> 0,
     variant_group_id |-> NoId]

\* No call of a retry_openai wrapper yet.
NoCall ==
    [max_retries |-> 0, backoff |-> 0, script |-> <<>>, attempt |-> 0,
     invocations |-> 0, waits |-> <<>>, last_exc |-> "None",
     pc |-> "idle", result |-> "none"]

\* class PipelineState(BaseModel): the declared fields with a default ({} and
\* [] are <<>>, None is "None").  application_id and user_id are required.
\* The model has no Config, so keyword arguments that name no declared field
\* are ignored (pydantic's default, extra = 'ignore').
PipelineStateDefaults ==
    [jd_raw |-> "", jd_parsed |-> <<>>, selection |-> <<>>,
     gap_analysis |-> <<>>, tailored_experiences |-> <<>>,
     tailored_projects |-> <<>>, tailored_activities |-> <<>>,
     ats_result |-> <<>>, cv_version_id |-> "", current_step |-> "pending",
     error |-> "None"]

PipelineState(kwargs) ==
    [f \in {"application_id", "user_id"} \cup DOMAIN PipelineStateDefaults |->
        IF f \in DOMAIN kwargs THEN kwargs[f] ELSE PipelineStateDefaults[f]]

UpperLetters == <<"A", "B", "C", "D", "E", "F", "G", "H", "I", "J", "K", "L", "M", "N", "O", "P", "Q", "R", "S", "T", "U", "V", "W", "X", "Y", "Z">>

LowerLetters == <<"a", "b", "c", "d", "e", "f", "g", "h", "i", "j", "k", "l", "m", "n", "o", "p", "q", "r", "s", "t", "u", "v", "w", "x", "y", "z">>

LowerChar(c) ==
    IF \E i \in DOMAIN UpperLetters : UpperLetters[i] = c
    THEN LowerLetters[CHOOSE i \in DOMAIN UpperLetters : UpperLetters[i] = c]
    ELSE c

\* str.lower()
Lower(s) == [i \in 1..Len(s) |-> LowerChar(s[i])]

RECURSIVE LStrip(_)
LStrip(s) == IF s # <<>> /\ Head(s) = " " THEN LStrip(Tail(s)) ELSE s

RECURSIVE RStrip(_)
RStrip(s) == IF s # <<>> /\ s[Len(s)] = " " THEN RStrip(SubSeq(s, 1, Len(s) - 1)) ELSE s

\* str.strip()
Strip(s) == RStrip(LStrip(s))

\* str.split() collected into a set: the maximal runs of non-blank characters.
RECURSIVE SplitWords(_, _, _)
SplitWords(s, cur, acc) ==
    IF s = <<>> THEN (IF cur = <<>> THEN acc ELSE acc \cup {cur})
    ELSE IF Head(s) = " "
         THEN SplitWords(Tail(s), <<>>, IF cur = <<>> THEN acc ELSE acc \cup {cur})
         ELSE SplitWords(Tail(s), Append(cur, Head(s)), acc)

\* Python's `sub in s` on strings.
Contains(sub, s) ==
    \E i \in 0..(Len(s) - Len(sub)) : \A j \in 1..Len(sub) : s[i + j] = sub[j]

\* s[:n]
Prefix(s, n) == SubSeq(s, 1, IF Len(s) < n THEN Len(s) ELSE n)

\* `x or ""`
OrEmpty(x) == IF x = None THEN <<>> ELSE x

\* " ".join(parts)
RECURSIVE JoinSpace(_)
JoinSpace(parts) ==
    IF parts = <<>> THEN <<>>
    ELSE IF Len(parts) = 1 THEN parts[1]
    ELSE parts[1] \o <<" ">> \o JoinSpace(Tail(parts))

\* any(kw in text for kw in terms)
ContainsAny(terms, text) == \E k \in DOMAIN terms : Contains(terms[k], text)

Min(a, b) == IF a < b THEN a ELSE b

\* ------------------------------------------------------- program constants

TechTerms ==
    <<<<"t", "e", "c", "h">>,
       <<"s", "o", "f", "t", "w", "a", "r", "e">>,
       <<"e", "n", "g", "i", "n", "e", "e", "r">>,
       <<"d", "a", "t", "a">>,
       <<"q", "u", "a", "n", "t">>,
       <<"t", "r", "a", "d", "i", "n", "g">>,
       <<"f", "i", "n", "t", "e", "c", "h">>,
       <<"m", "a", "c", "h", "i", "n", "e", " ", "l", "e", "a", "r", "n", "i", "n", "g">>,
       <<"d", "e", "v", "e", "l", "o", "p", "e", "r">>,
       <<"a", "n", "a", "l", "y", "t", "i", "c", "s">>>>

ConsultingTerms ==
    <<<<"c", "o", "n", "s", "u", "l", "t">>,
       <<"s", "t", "r", "a", "t", "e", "g", "y">>,
       <<"a", "d", "v", "i", "s", "o", "r", "y">>>>

FinanceTerms ==
    <<<<"f", "i", "n", "a", "n", "c">>,
       <<"b", "a", "n", "k">>,
       <<"i", "n", "v", "e", "s", "t", "m", "e", "n", "t">>,
       <<"e", "q", "u", "i", "t", "y">>,
       <<"a", "s", "s", "e", "t">>,
       <<"w", "e", "a", "l", "t", "h">>,
       <<"p", "o", "r", "t", "f", "o", "l", "i", "o">>>>

DomainKeywordTerms ==
    <<<<"t", "e", "c", "h">>,
       <<"s", "o", "f", "t", "w", "a", "r", "e">>,
       <<"e", "n", "g", "i", "n", "e", "e", "r">>,
       <<"d", "a", "t", "a">>,
       <<"q", "u", "a", "n", "t">>,
       <<"t", "r", "a", "d", "i", "n", "g">>,
       <<"f", "i", "n", "t", "e", "c", "h">>,
       <<"c", "o", "n", "s", "u", "l", "t">>,
       <<"s", "t", "r", "a", "t", "e", "g", "y">>,
       <<"f", "i", "n", "a", "n", "c", "e">>,
       <<"b", "a", "n", "k">>,
       <<"i", "n", "v", "e", "s", "t", "m", "e", "n", "t">>>>

UniversityKeywords ==
    <<<<"u", "n", "i", "v", "e", "r", "s", "i", "t", "y">>,
       <<"c", "o", "l", "l", "e", "g", "e">>,
       <<"b", "a", "c", "h", "e", "l", "o", "r">>,
       <<"m", "a", "s", "t", "e", "r">>,
       <<"p", "h", "d">>,
       <<"m", "b", "a">>,
       <<"m", "s", "c">>,
       <<"b", "s", "c">>,
       <<"b", "a">>,
       <<"b", "s">>>>

DOMAIN_BOOST == 80

ExperienceQueryLimit == 30

MAX_SKILLS == 25

LinesPerPage == 34

RolePrefixLen == 20

\* Oversampling factor of the project and activity similarity queries.
Oversample == 3

\* ------------------------------------------------------------ model bounds

\* Rows drawn from ExpCatalogue into one work_experiences table.
MaxExpPool == 3

\* Work experiences in a table of the page-budget inputs.
MaxExpRows == 7

\* Projects, and activities, in a table of the page-budget inputs.
MaxSideRows == 6

\* Rows of a table read through the unranked fallback fetch.
MaxFallbackRows == 3

\* Rows drawn from SkillCatalogue / EduCatalogue into one table.
MaxSkillPool == 3

MaxEduPool == 3

\* ------------------------------------------------------------- the inputs

Digits == <<"0", "1", "2", "3", "4", "5", "6", "7", "8", "9">>

\* bullets column (JSONB): a list of bullets, each modelled by the length of
\* the text _estimate_rendered_lines reads from it, or a non-list value.
BulletList(lens) == [is_list |-> TRUE, items |-> lens]

BulletsOfWeight(w) ==
    CASE w = "light" -> BulletList(<<50, 85>>)
      [] w = "heavy" -> BulletList(<<171, 170, 86, 85, 200>>)
      [] w = "huge"  -> BulletList(<<171, 170, 86, 85, 200, 120>>)
      [] OTHER       -> [is_list |-> FALSE, items |-> <<>>]

\* (work experiences, projects and activities) bullet weights of one input.
WeightPairs ==
    {<<"light", "light">>, <<"heavy", "heavy">>, <<"huge", "light">>,
     <<"light", "huge">>, <<"heavy", "notalist">>}

WorkRow(id, user, upload, company, role, group, tags, embedded, sim, bullets) ==
    [id |-> id, user_id |-> user, upload_source_id |-> upload,
     company |-> company, role_title |-> role, variant_group_id |-> group,
     domain_tags |-> tags, embedded |-> embedded, similarity |-> sim,
     bullets |-> bullets]

ProjectRow(id, user, upload, name, group, embedded, sim, bullets) ==
    [id |-> id, user_id |-> user, upload_source_id |-> upload, name |-> name,
     variant_group_id |-> group, embedded |-> embedded, similarity |-> sim,
     bullets |-> bullets]

ActivityRow(id, user, upload, org, role, group, embedded, sim, bullets) ==
    [id |-> id, user_id |-> user, upload_source_id |-> upload,
     organization |-> org, role_title |-> role, variant_group_id |-> group,
     embedded |-> embedded, similarity |-> sim, bullets |-> bullets]

\* achievements / modules column (JSONB): kind is "none", "list" or "dict";
\* n is the length of the list, or of the dict's "items" (0 when absent).
Json(kind, n) == [kind |-> kind, n |-> n]

EducationRow(id, user, institution, degree, achievements, modules, date_start, date_end) ==
    [id |-> id, user_id |-> user, institution |-> institution, degree |-> degree,
     achievements |-> achievements, modules |-> modules,
     date_start |-> date_start, date_end |-> date_end]

SkillRow(id, user, name, category, dup) ==
    [id |-> id, user_id |-> user, name |-> name, category |-> category,
     is_duplicate_of |-> dup]

UploadRow(id, user, created) == [id |-> id, user_id |-> user, created_at |-> created]

ParsedJD(domain, summary, keywords, required, nice, tools) ==
    [domain |-> domain, role_summary |-> summary, keywords |-> keywords,
     required_skills |-> required, nice_to_have_skills |-> nice,
     tools_and_technologies |-> tools]

\* The parsed job descriptions the inputs draw from.
JDs ==
    <<
       \* tech by 'quant'; finance too
       ParsedJD(<<"q", "u", "a", "n", "t", "i", "t", "a", "t", "i", "v", "e", " ", "f", "i", "n", "a", "n", "c", "e">>, <<>>, <<>>,
                <<<<"P", "y", "t", "h", "o", "n">>, <<"S", "Q", "L">>>>, <<>>, <<<<"E", "x", "c", "e", "l">>>>),
       \* finance only
       ParsedJD(<<"I", "n", "v", "e", "s", "t", "m", "e", "n", "t", " ", "B", "a", "n", "k", "i", "n", "g">>, <<"A", "n", "a", "l", "y", "s", "t", " ", "i", "n", " ", "t", "h", "e", " ", "M", "&", "A", " ", "t", "e", "a", "m">>, <<<<"E", "x", "c", "e", "l">>>>,
                <<<<"E", "x", "c", "e", "l">>>>, <<>>, <<>>),
       \* default
       ParsedJD(<<"M", "a", "r", "k", "e", "t", "i", "n", "g">>, None, <<<<"B", "r", "a", "n", "d">>>>,
                <<>>, <<<<"S", "Q", "L">>>>, <<>>),
       \* consulting and tech terms
       ParsedJD(<<"S", "t", "r", "a", "t", "e", "g", "y", " ", "C", "o", "n", "s", "u", "l", "t", "i", "n", "g">>, <<"d", "a", "t", "a", " ", "d", "r", "i", "v", "e", "n", " ", "a", "d", "v", "i", "s", "o", "r", "y">>, <<>>,
                <<>>, <<>>, <<>>),
       \* finance through the keywords only
       ParsedJD(None, <<>>, <<<<"E", "q", "u", "i", "t", "y">>, <<"R", "e", "s", "e", "a", "r", "c", "h">>>>,
                <<>>, <<>>, <<>>),
       \* tech through a substring
       ParsedJD(<<"B", "i", "o", "t", "e", "c", "h">>, <<>>, <<>>,
                <<>>, <<>>, <<>>),
       \* empty
       ParsedJD(None, None, <<>>,
                <<>>, <<>>, <<>>)
    >>

\* Work experiences of the ranking and deduplication inputs: variants of one
\* group at one company, the fuzzy company/role pairs of the source's comments,
\* a row without company, a row without embedding and another user's row.
ExpCatalogue ==
    <<
       WorkRow(101, "userA", 1, <<"G", "A", "O", " ", "C", "a", "p", "i", "t", "a", "l">>,
               <<"S", "u", "m", "m", "e", "r", " ", "I", "n", "t", "e", "r", "n">>,
               901, <<<<"q", "u", "a", "n", "t", "i", "t", "a", "t", "i", "v", "e", " ", "t", "r", "a", "d", "i", "n", "g">>>>, TRUE, 900, BulletsOfWeight("light")),
       WorkRow(102, "userA", 2, <<"G", "A", "O", " ", "C", "a", "p", "i", "t", "a", "l", " ", "S", "i", "n", "g", "a", "p", "o", "r", "e">>,
               <<"S", "u", "m", "m", "e", "r", " ", "I", "n", "t", "e", "r", "n">>,
               901, <<>>, TRUE, 850, BulletsOfWeight("light")),
       WorkRow(103, "userA", 2, <<"g", "a", "o", " ", "c", "a", "p", "i", "t", "a", "l">>,
               <<"Q", "u", "a", "n", "t", " ", "R", "e", "s", "e", "a", "r", "c", "h", "e", "r">>,
               901, <<>>, TRUE, 800, BulletsOfWeight("light")),
       WorkRow(104, "userA", 1, <<"A", "c", "m", "e", " ", "C", "o", "r", "p">>,
               <<"I", "n", "t", "e", "r", "n">>,
               902, <<<<"F", "i", "n", "a", "n", "c", "e">>>>, TRUE, 700, BulletsOfWeight("light")),
       WorkRow(105, "userA", 2, <<"A", "c", "m", "e">>,
               <<"I", "n", "v", "e", "s", "t", "m", "e", "n", "t", " ", "I", "n", "t", "e", "r", "n">>,
               NoId, <<>>, TRUE, 700, BulletsOfWeight("light")),
       WorkRow(106, "userA", 2, None,
               None,
               NoId, <<>>, TRUE, 650, BulletsOfWeight("light")),
       WorkRow(107, "userA", NoId, <<"S", "A", "F">>,
               <<"I", "n", "t", "e", "l", "l", "i", "g", "e", "n", "c", "e", " ", "A", "d", "m", "i", "n", " ", "A", "s", "s", "i", "s", "t", "a", "n", "t", " ", "(", "C", "o", "r", "p", "o", "r", "a", "l", ")">>,
               903, <<>>, TRUE, 600, BulletsOfWeight("light")),
       WorkRow(108, "userA", 2, <<"S", "A", "F">>,
               <<"I", "n", "t", "e", "l", "l", "i", "g", "e", "n", "c", "e", " ", "A", "d", "m", "i", "n", " ", "A", "s", "s", "i", "s", "t", "a", "n", "t", " ", "(", "N", "S", ")">>,
               904, <<>>, TRUE, 600, BulletsOfWeight("light")),
       WorkRow(109, "userA", 2, <<"S", "o", "l", "o">>,
               <<"A", "n", "a", "l", "y", "s", "t">>,
               905, <<>>, FALSE, 0, BulletsOfWeight("light")),
       WorkRow(110, "userB", 2, <<"O", "t", "h", "e", "r", " ", "C", "o">>,
               <<"T", "r", "a", "d", "e", "r">>,
               906, <<<<"q", "u", "a", "n", "t", "i", "t", "a", "t", "i", "v", "e", " ", "t", "r", "a", "d", "i", "n", "g">>>>, TRUE, 990, BulletsOfWeight("light"))
    >>

\* Skills of the skill-selection inputs: the same name under two categories,
\* a padded name, an empty name, a soft duplicate and another user's skill.
SkillCatalogue ==
    <<
       SkillRow(501, "userA", <<"p", "y", "t", "h", "o", "n">>, <<"t", "o", "o", "l">>, NoId),
       SkillRow(502, "userA", <<"P", "y", "t", "h", "o", "n">>, <<"t", "e", "c", "h", "n", "i", "c", "a", "l">>, NoId),
       SkillRow(503, "userA", <<" ", "S", "Q", "L", " ">>, <<"t", "e", "c", "h", "n", "i", "c", "a", "l">>, NoId),
       SkillRow(504, "userA", <<"C", "o", "o", "k", "i", "n", "g">>, <<"i", "n", "t", "e", "r", "e", "s", "t">>, NoId),
       SkillRow(505, "userA", <<>>, <<"o", "t", "h", "e", "r">>, NoId),
       SkillRow(506, "userA", <<"J", "a", "v", "a">>, None, NoId),
       SkillRow(507, "userA", <<"j", "a", "v", "a">>, <<"f", "r", "a", "m", "e", "w", "o", "r", "k">>, 506),
       SkillRow(508, "userB", <<"E", "x", "c", "e", "l">>, <<"t", "e", "c", "h", "n", "i", "c", "a", "l">>, NoId)
    >>

\* Education rows of the education inputs: dates are day numbers.
EduCatalogue ==
    <<
       EducationRow(401, "userA", <<"S", "t", "a", "t", "e", " ", "U", "n", "i", "v", "e", "r", "s", "i", "t", "y">>,
                    <<"B", "S", "c", " ", "M", "a", "t", "h">>,
                    Json("list", 2), Json("list", 3), 3, 5),
       EducationRow(402, "userA", <<"C", "i", "t", "y", " ", "H", "i", "g", "h", " ", "S", "c", "h", "o", "o", "l">>,
                    <<"D", "i", "p", "l", "o", "m", "a">>,
                    Json("list", 6), Json("none", 0), 1, 2),
       EducationRow(403, "userA", <<"T", "e", "c", "h", " ", "I", "n", "s", "t", "i", "t", "u", "t", "e">>,
                    <<"M", "a", "s", "t", "e", "r", " ", "o", "f", " ", "S", "c", "i", "e", "n", "c", "e">>,
                    Json("dict", 3), Json("dict", 0), 5, NoDate),
       EducationRow(404, "userA", None,
                    <<"M", "B", "A">>,
                    Json("list", 2), Json("list", 3), 4, 5),
       EducationRow(405, "userA", <<"A", "l", "a", "b", "a", "m", "a", " ", "H", "i", "g", "h">>,
                    None,
                    Json("none", 0), Json("list", 0), 2, 6),
       EducationRow(406, "userB", <<"O", "t", "h", "e", "r", " ", "U", "n", "i", "v", "e", "r", "s", "i", "t", "y">>,
                    <<"P", "h", "D">>,
                    Json("list", 9), Json("list", 9), 8, 9)
    >>
\* The i-th row of the page-budget tables: distinct one-word companies and
\* names, strictly decreasing similarity, all bullets of one weight.
BudgetExp(i, w) ==
    WorkRow(200 + i, "userA", 1 + (i % 2), <<"c", "o", Digits[i + 1]>>,
            <<"A", "n", "a", "l", "y", "s", "t">>,
            IF i % 2 = 0 THEN 1200 + i ELSE NoId, <<>>, TRUE, 900 - 10 * i,
            BulletsOfWeight(w))

BudgetProj(i, w, embedded) ==
    ProjectRow(300 + i, "userA", 1 + (i % 2), <<"p", "r", Digits[i + 1]>>,
               IF i % 2 = 0 THEN 1300 + i ELSE NoId, embedded, 800 - 10 * i,
               BulletsOfWeight(w))

BudgetAct(i, w, embedded) ==
    ActivityRow(350 + i, "userA", 1 + (i % 2), <<"o", "r", "g", Digits[i + 1]>>,
                <<"M", "e", "m", "b", "e", "r">>,
                IF i % 2 = 0 THEN 1350 + i ELSE NoId, embedded, 800 - 10 * i,
                BulletsOfWeight(w))

\* Filler skills around the cap: "sql NN" matches the JD term "sql", "xNN" does not.
FillerSkill(i, matched) ==
    SkillRow(IF matched THEN 600 + i ELSE 700 + i, "userA",
             IF matched
             THEN <<"s", "q", "l", " ", Digits[(i \div 10) + 1], Digits[(i % 10) + 1]>>
             ELSE <<"x", Digits[(i \div 10) + 1], Digits[(i % 10) + 1]>>,
             <<"t", "e", "c", "h", "n", "i", "c", "a", "l">>, NoId)

ExpRows(n, w) == [i \in 1..n |-> BudgetExp(i, w)]

ProjRows(n, w, embedded) == [i \in 1..n |-> BudgetProj(i, w, embedded)]

ActRows(n, w, embedded) == [i \in 1..n |-> BudgetAct(i, w, embedded)]

Reverse(s) == [i \in 1..Len(s) |-> s[Len(s) + 1 - i]]

\* The rows of a catalogue at the indices I, in catalogue order.
RECURSIVE RowsAt(_, _)
RowsAt(cat, I) ==
    IF I = {} THEN <<>>
    ELSE LET m == CHOOSE x \in I : \A y \in I : x <= y
         IN  <<cat[m]>> \o RowsAt(cat, I \ {m})

\* Every sequence of at most k distinct rows of a catalogue.
RECURSIVE Arrangements(_, _, _)
Arrangements(cat, I, k) ==
    IF k = 0 THEN {<<>>}
    ELSE {<<>>} \cup UNION {{<<cat[x]>> \o t : t \in Arrangements(cat, I \ {x}, k - 1)} : x \in I}

\* userA uploaded twice (upload 2 is the latest), userB once, later still.
UploadsTwo == <<UploadRow(1, "userA", 10), UploadRow(2, "userA", 20), UploadRow(3, "userB", 30)>>

DefaultEducation == <<EduCatalogue[1]>>

DefaultSkills == <<SkillCatalogue[2], SkillCatalogue[4]>>

Input(we, pr, ac, ed, sk, up, jd, pages, mode) ==
    [work_experiences |-> we, projects |-> pr, activities |-> ac, education |-> ed,
     skills |-> sk, cv_uploads |-> up, jd_parsed |-> jd, max_pages |-> pages,
     selection_mode |-> mode]

\* Ranking and deduplication of work experiences.
ExpInputs ==
    {Input(IF rev THEN Reverse(RowsAt(ExpCatalogue, I)) ELSE RowsAt(ExpCatalogue, I),
           ProjRows(2, "light", TRUE), ActRows(2, "light", TRUE),
           DefaultEducation, DefaultSkills, mc[2], jd, 1, mc[1]) :
        I \in {J \in SUBSET DOMAIN ExpCatalogue : Cardinality(J) <= MaxExpPool},
        rev \in BOOLEAN, jd \in {JDs[1], JDs[3]},
        mc \in {<<"library", UploadsTwo>>, <<"latest_cv", <<>>>>, <<"latest_cv", UploadsTwo>>}}

\* Quotas, caps and the page budget.
BudgetInputs ==
    {Input(ExpRows(ne, w[1]), ProjRows(ns, w[2], TRUE), ActRows(ns, w[2], TRUE),
           DefaultEducation, DefaultSkills, UploadsTwo, jd, pages, "library") :
        ne \in 0..MaxExpRows, ns \in 0..MaxSideRows, w \in WeightPairs,
        jd \in {JDs[1], JDs[2], JDs[3]}, pages \in {1, 2}}

\* Projects and activities without embeddings: the unranked fallback fetch.
FallbackInputs ==
    {Input(ExpRows(2, "light"),
           IF rev THEN Reverse(ProjRows(ns, ws, FALSE)) ELSE ProjRows(ns, ws, FALSE),
           IF rev THEN Reverse(ActRows(ns, ws, FALSE)) ELSE ActRows(ns, ws, FALSE),
           DefaultEducation, DefaultSkills, mc[2], jd, pages, mc[1]) :
        ns \in 0..MaxFallbackRows, ws \in {"light", "huge"}, rev \in BOOLEAN,
        jd \in {JDs[1], JDs[2], JDs[3]}, pages \in {1, 2},
        mc \in {<<"library", UploadsTwo>>, <<"latest_cv", UploadsTwo>>,
                <<"latest_cv", <<UploadRow(3, "userB", 30)>>>>}}

SkillInputs ==
    {Input(ExpRows(1, "light"), <<>>, <<>>, DefaultEducation, sk, <<>>,
           JDs[1], 1, "library") :
        sk \in Arrangements(SkillCatalogue, DOMAIN SkillCatalogue, MaxSkillPool)
               \cup {base \o [i \in 1..(nm + nn) |->
                                 IF i <= nn THEN FillerSkill(i, FALSE)
                                 ELSE FillerSkill(i - nn, TRUE)] :
                        base \in {<<>>, <<SkillCatalogue[1], SkillCatalogue[4]>>},
                        nm \in {0, MAX_SKILLS - 1, MAX_SKILLS, MAX_SKILLS + 1},
                        nn \in {0, 2}}}

EduInputs ==
    {Input(ExpRows(1, "light"), <<>>, <<>>, ed, DefaultSkills, <<>>,
           JDs[3], 1, "library") :
        ed \in Arrangements(EduCatalogue, DOMAIN EduCatalogue, MaxEduPool)}

DomainInputs ==
    {Input(ExpRows(2, "light"), ProjRows(6, "light", TRUE), ActRows(6, "light", TRUE),
           DefaultEducation, DefaultSkills, <<>>, JDs[j], pages, "library") :
        j \in DOMAIN JDs, pages \in {1, 2}}

\* One candidate around the top of the similarity range, with a domain tag
\* that is a JD domain keyword, one that is not, or none.
BoostInputs ==
    {Input(<<WorkRow(111, "userA", 2, <<"Q", "F", "u", "n", "d">>,
                     <<"T", "r", "a", "d", "e", "r">>, NoId, tags, TRUE, sim,
                     BulletsOfWeight("light"))>>,
           <<>>, <<>>, DefaultEducation, DefaultSkills, UploadsTwo, jd, 1, "library") :
        sim \in {0, 500, 920, 921, 1000},
        tags \in {<<>>, <<<<"Q", "u", "a", "n", "t">>>>,
                  <<<<"q", "u", "a", "n", "t", "i", "t", "a", "t", "i", "v", "e", " ", "t", "r", "a", "d", "i", "n", "g">>>>},
        jd \in {JDs[1], JDs[3]}}

\* Projects and activities that repeat a variant group, a name or an
\* organization+role key, all embedded or all without embedding, in either
\* table order; quotas (2,5) and (4,2).
SideDedupInputs ==
    LET proj(e) ==
            <<ProjectRow(321, "userA", 2, <<"T", "r", "a", "d", "i", "n", "g", " ", "B", "o", "t">>, 1321, e, 800, BulletsOfWeight("light")),
              ProjectRow(322, "userA", 2, <<"T", "R", "A", "D", "I", "N", "G", " ", "B", "O", "T">>, NoId, e, 790, BulletsOfWeight("light")),
              ProjectRow(323, "userA", 2, <<"B", "a", "c", "k", "t", "e", "s", "t", "e", "r">>, 1321, e, 780, BulletsOfWeight("light")),
              ProjectRow(324, "userA", 2, None, NoId, e, 770, BulletsOfWeight("light"))>>
        act(e) ==
            <<ActivityRow(371, "userA", 2, <<"C", "h", "e", "s", "s", " ", "C", "l", "u", "b">>, <<"P", "r", "e", "s", "i", "d", "e", "n", "t">>, 1371, e, 800, BulletsOfWeight("light")),
              ActivityRow(372, "userA", 2, <<"c", "h", "e", "s", "s", " ", "c", "l", "u", "b">>, <<"P", "r", "e", "s", "i", "d", "e", "n", "t">>, NoId, e, 790, BulletsOfWeight("light")),
              ActivityRow(373, "userA", 2, <<"D", "e", "b", "a", "t", "e", " ", "S", "o", "c", "i", "e", "t", "y">>, <<"M", "e", "m", "b", "e", "r">>, 1371, e, 780, BulletsOfWeight("light")),
              ActivityRow(374, "userA", 2, None, <<"P", "r", "e", "s", "i", "d", "e", "n", "t">>, NoId, e, 770, BulletsOfWeight("light"))>>
    IN  {Input(ExpRows(1, "light"),
               IF rev THEN Reverse(RowsAt(proj(e), I)) ELSE RowsAt(proj(e), I),
               IF rev THEN Reverse(RowsAt(act(e), I)) ELSE RowsAt(act(e), I),
               DefaultEducation, DefaultSkills, UploadsTwo, jd, 2, "library") :
            I \in SUBSET (1..4), e \in BOOLEAN, rev \in BOOLEAN, jd \in {JDs[2], JDs[3]}}

Inputs ==
    SideDedupInputs \cup ExpInputs \cup BudgetInputs \cup FallbackInputs \cup SkillInputs
        \cup EduInputs \cup DomainInputs \cup BoostInputs

\* -------------------------------------------------------------- the state

VARIABLES
    \* the store, scoped by user_id in every query
    work_experiences, projects, activities, education, skills, cv_uploads,
    \* the arguments of select_experiences
    jd_parsed, max_pages, selection_mode,
    \* its position and its locals
    pc, latest_upload_id, is_tech, is_consulting, is_finance,
    project_limit, activity_limit, domain_keywords,
    rows, scored_rows, next_row, seen_groups, seen_company_roles,
    selected, selected_education, selected_projects, selected_activities,
    bullet_counts, proj_bullet_counts, act_bullet_counts,
    total_lines, trim_index, selected_skills,
    \* the deduplicated tables as the deduplication engine sees them (one row
    \* per entity, with its embedding and grouping columns), the uuid4()
    \* values handed out so far, and the outcome of the last engine call
    entities, next_uuid, dedup_result,
    \* routes/tailor.py: the in-flight set and the run requests of this process
    _active_tailoring, requests,
    \* services/embedder.py: the cache (least recently used first), the
    \* OpenAI calls awaited and the _cache_set calls of the call that returned
    _cache, api_calls, cache_writes,
    \* utils.retry_openai: one call of a wrapped function
    retry_call,
    \* agents/graph.py: a PipelineState and the keyword arguments it was
    \* created with, the position of run_pipeline, whether on_step was given,
    \* the (step, status) pairs reported and the CvVersion rows committed
    state, state_kwargs, pipeline_pc, on_step, reports, cv_versions

store == <<work_experiences, projects, activities, education, skills, cv_uploads>>

args == <<jd_parsed, max_pages>>

quota == <<is_tech, is_consulting, is_finance, project_limit, activity_limit>>

ranking == <<rows, scored_rows, next_row, seen_groups, seen_company_roles>>

counts == <<bullet_counts, proj_bullet_counts, act_bullet_counts>>

selection_state ==
    <<store, args, selection_mode, pc, latest_upload_id, quota, domain_keywords,
      ranking, selected, selected_education, selected_projects,
      selected_activities, counts, total_lines, trim_index, selected_skills>>

dedup_state == <<entities, next_uuid, dedup_result>>

tailor_state == <<_active_tailoring, requests>>

cache_state == <<_cache, api_calls, cache_writes>>

pipeline_state == <<state, state_kwargs, pipeline_pc, on_step, reports, cv_versions>>

service_state == <<tailor_state, cache_state, retry_call, pipeline_state>>

vars == <<selection_state, dedup_state, service_state>>

\* The module-level state of the services as the process starts.
ServicesIdle ==
    /\ _active_tailoring = {}
    /\ requests = <<>>
    /\ _cache = <<>>
    /\ api_calls = <<>>
    /\ cache_writes = <<>>
    /\ retry_call = NoCall
    /\ state = PipelineState([application_id |-> "", user_id |-> ""])
    /\ state_kwargs = [application_id |-> "", user_id |-> ""]
    /\ pipeline_pc = [step |-> 0, at |-> "idle"]
    /\ on_step = FALSE
    /\ reports = <<>>
    /\ cv_versions = 0

\* The caller: every query of select_experiences is scoped to this user.
user_id == "userA"

Init ==
    \E inp \in Inputs :
        /\ work_experiences = inp.work_experiences
        /\ projects = inp.projects
        /\ activities = inp.activities
        /\ education = inp.education
        /\ skills = inp.skills
        /\ cv_uploads = inp.cv_uploads
        /\ jd_parsed = inp.jd_parsed
        /\ max_pages = inp.max_pages
        /\ selection_mode = inp.selection_mode
        /\ pc = "resolve_upload"
        /\ latest_upload_id = NoId
        /\ is_tech = FALSE
        /\ is_consulting = FALSE
        /\ is_finance = FALSE
        /\ project_limit = 0
        /\ activity_limit = 0
        /\ domain_keywords = {}
        /\ rows = <<>>
        /\ scored_rows = <<>>
        /\ next_row = 1
        /\ seen_groups = <<>>
        /\ seen_company_roles = {}
        /\ selected = <<>>
        /\ selected_education = <<>>
        /\ selected_projects = <<>>
        /\ selected_activities = <<>>
        /\ bullet_counts = <<>>
        /\ proj_bullet_counts = <<>>
        /\ act_bullet_counts = <<>>
        /\ total_lines = 0
        /\ trim_index = 0
        /\ selected_skills = <<>>
        /\ entities = <<>>
        /\ next_uuid = 1
        /\ dedup_result = NoResult
        /\ ServicesIdle

\* --------------------------------------------------------- query helpers

\* Position of element i of a sequence sorted by descending key, equal keys
\* keeping their order (ORDER BY ... DESC over table order; a stable sort).
RankDesc(keys, i) ==
    1 + Cardinality({j \in DOMAIN keys : keys[j] > keys[i] \/ (keys[j] = keys[i] /\ j < i)})

SortDesc(s, keys) ==
    [p \in 1..Len(s) |-> s[CHOOSE i \in 1..Len(s) : RankDesc(keys, i) = p]]

\* LIMIT n
Limit(s, n) == SubSeq(s, 1, Min(Len(s), n))

\* dict.get(key, default)
Get(d, key, default) == IF key \in DOMAIN d THEN d[key] ELSE default

\* d[key] = value
Put(d, key, value) == [k \in (DOMAIN d) \cup {key} |-> IF k = key THEN value ELSE d[k]]

\* WHERE user_id = :user_id [AND upload_source_id = :upload_source_id]
InScope(row) ==
    /\ row.user_id = user_id
    /\ latest_upload_id # NoId => row.upload_source_id = latest_upload_id

\* ... AND embedding IS NOT NULL
Embedded(row) == row.embedded /\ InScope(row)

\* ORDER BY similarity DESC LIMIT n over the embedded rows in scope.
SimilarityQuery(table, n) ==
    LET found == SelectSeq(table, Embedded)
    IN  Limit(SortDesc(found, [i \in 1..Len(found) |-> found[i].similarity]), n)

\* ------------------------------------------------ select_experiences, steps

\* A faulty variant of LatestUpload: the newest upload of any user.
LatestUpload_AnyUser ==
    LET newest == SortDesc(cv_uploads, [i \in 1..Len(cv_uploads) |-> cv_uploads[i].created_at])
    IN  IF newest = <<>> THEN NoId ELSE newest[1].id

\* The user's most recently created upload, NoId when there is none.
LatestUpload ==
    LET IsMine(u) == u.user_id = user_id
        mine == SelectSeq(cv_uploads, IsMine)
        newest == SortDesc(mine, [i \in 1..Len(mine) |-> mine[i].created_at])
    IN  IF newest = <<>> THEN NoId ELSE newest[1].id

\* Resolve the upload filter of "latest_cv" mode; fall back to library mode.
ResolveUpload ==
    /\ pc = "resolve_upload"
    /\ IF selection_mode = "latest_cv"
       THEN /\ latest_upload_id' = LatestUpload
            /\ selection_mode' = IF LatestUpload = NoId THEN "library" ELSE selection_mode
       ELSE UNCHANGED <<latest_upload_id, selection_mode>>
    /\ pc' = "embed_jd"
    /\ UNCHANGED <<service_state, dedup_state, store, args, quota, domain_keywords, ranking, selected,
                   selected_education, selected_projects, selected_activities,
                   counts, total_lines, trim_index, selected_skills>>

\* embed_text(jd_embed_text) returns: the embedding provider is external, and
\* every embedded row carries its cosine similarity to this embedding.
EmbedJD ==
    /\ pc = "embed_jd"
    /\ pc' = "assign_quota"
    /\ UNCHANGED <<service_state, dedup_state, store, args, selection_mode, latest_upload_id, quota,
                   domain_keywords, ranking, selected, selected_education,
                   selected_projects, selected_activities, counts, total_lines,
                   trim_index, selected_skills>>

\* embed_text raises: the exception leaves select_experiences.
EmbedJDFails ==
    /\ pc = "embed_jd"
    /\ pc' = "raised_embedding"
    /\ UNCHANGED <<service_state, dedup_state, store, args, selection_mode, latest_upload_id, quota,
                   domain_keywords, ranking, selected, selected_education,
                   selected_projects, selected_activities, counts, total_lines,
                   trim_index, selected_skills>>

\* (jd_parsed.get("domain") or "").lower()
JdDomain == Lower(OrEmpty(jd_parsed.domain))

\* f"{domain} {role_summary} {all_keywords}"
DomainContext ==
    JdDomain \o <<" ">> \o Lower(OrEmpty(jd_parsed.role_summary))
        \o <<" ">> \o Lower(JoinSpace(jd_parsed.keywords))

\* A faulty variant of QuotaFor: the consulting/finance branch is tested first.
QuotaFor_FinanceFirst(tech, consulting, finance, pages) ==
    IF consulting \/ finance THEN (IF pages >= 2 THEN <<2, 5>> ELSE <<0, 3>>)
    ELSE IF tech THEN (IF pages >= 2 THEN <<5, 1>> ELSE <<3, 0>>)
    ELSE (IF pages >= 2 THEN <<4, 2>> ELSE <<2, 1>>)

\* (project_limit, activity_limit) of the three branches.
QuotaFor(tech, consulting, finance, pages) ==
    IF tech THEN (IF pages >= 2 THEN <<5, 1>> ELSE <<3, 0>>)
    ELSE IF consulting \/ finance THEN (IF pages >= 2 THEN <<2, 5>> ELSE <<0, 3>>)
    ELSE (IF pages >= 2 THEN <<4, 2>> ELSE <<2, 1>>)

AssignQuota ==
    /\ pc = "assign_quota"
    /\ is_tech' = ContainsAny(TechTerms, DomainContext)
    /\ is_consulting' = ContainsAny(ConsultingTerms, DomainContext)
    /\ is_finance' = ContainsAny(FinanceTerms, DomainContext)
    /\ project_limit' = QuotaFor(is_tech', is_consulting', is_finance', max_pages)[1]
    /\ activity_limit' = QuotaFor(is_tech', is_consulting', is_finance', max_pages)[2]
    /\ pc' = "domain_keywords"
    /\ UNCHANGED <<service_state, dedup_state, store, args, selection_mode, latest_upload_id, domain_keywords,
                   ranking, selected, selected_education, selected_projects,
                   selected_activities, counts, total_lines, trim_index,
                   selected_skills>>

\* The JD domain itself and every listed term that occurs in it.
DomainKeywords(domain) ==
    (IF domain # <<>> THEN {domain} ELSE {})
        \cup {DomainKeywordTerms[k] : k \in {j \in DOMAIN DomainKeywordTerms :
                                                Contains(DomainKeywordTerms[j], domain)}}

BuildDomainKeywords ==
    /\ pc = "domain_keywords"
    /\ domain_keywords' = DomainKeywords(JdDomain)
    /\ pc' = "query_experiences"
    /\ UNCHANGED <<service_state, dedup_state, store, args, selection_mode, latest_upload_id, quota, ranking,
                   selected, selected_education, selected_projects,
                   selected_activities, counts, total_lines, trim_index,
                   selected_skills>>

QueryExperiences ==
    /\ pc = "query_experiences"
    /\ rows' = SimilarityQuery(work_experiences, ExperienceQueryLimit)
    /\ pc' = "score"
    /\ UNCHANGED <<service_state, dedup_state, store, args, selection_mode, latest_upload_id, quota,
                   domain_keywords, scored_rows, next_row, seen_groups,
                   seen_company_roles, selected, selected_education,
                   selected_projects, selected_activities, counts, total_lines,
                   trim_index, selected_skills>>

\* tags_lower & domain_keywords, guarded by both being non-empty
TagsOverlap(tags, keywords) ==
    /\ tags # <<>>
    /\ keywords # {}
    /\ {Lower(tags[i]) : i \in DOMAIN tags} \cap keywords # {}

\* The boosted score of a row of the similarity query.
Boosted(row, keywords) ==
    row.similarity + (IF TagsOverlap(row.domain_tags, keywords) THEN DOMAIN_BOOST ELSE 0)

ScoredRow(row, keywords) ==
    [id |-> row.id, company |-> row.company, role_title |-> row.role_title,
     variant_group_id |-> row.variant_group_id, score |-> Boosted(row, keywords)]

\* Apply the domain-tag boost and re-rank by boosted score, descending.
ScoreRows ==
    /\ pc = "score"
    /\ LET scored == [i \in 1..Len(rows) |-> ScoredRow(rows[i], domain_keywords)]
       IN  scored_rows' = SortDesc(scored, [i \in 1..Len(scored) |-> scored[i].score])
    /\ next_row' = 1
    /\ pc' = "dedup"
    /\ UNCHANGED <<service_state, dedup_state, store, args, selection_mode, latest_upload_id, quota,
                   domain_keywords, rows, seen_groups, seen_company_roles, selected,
                   selected_education, selected_projects, selected_activities,
                   counts, total_lines, trim_index, selected_skills>>

\* str(variant_group_id) if variant_group_id else str(exp_id)
GroupKey(row) == IF row.variant_group_id # NoId THEN row.variant_group_id ELSE row.id

\* The group of the candidate was last seen with the same company.
GroupDuplicate(row, groups) ==
    /\ GroupKey(row) \in DOMAIN groups
    /\ groups[GroupKey(row)] # <<>>
    /\ OrEmpty(row.company) # <<>>
    /\ Lower(groups[GroupKey(row)]) = Lower(row.company)

_company_tokens(company) ==
    IF company = <<>> THEN {} ELSE SplitWords(Strip(Lower(company)), <<>>, {})

CompanyLower(row) == Strip(Lower(OrEmpty(row.company)))

\* role_lower[:20] of the stripped, lowercased role title
RolePrefix(row) == Prefix(Strip(Lower(OrEmpty(row.role_title))), RolePrefixLen)

RolesSimilar(role_prefix, seen_role_prefix) ==
    \/ seen_role_prefix = role_prefix
    \/ Contains(role_prefix, seen_role_prefix)
    \/ Contains(seen_role_prefix, role_prefix)

\* A faulty variant of SimilarCompanyRole: only equal token sets count.
SimilarCompanyRole_EqualTokens(company_tokens, role_prefix, seen_entry) ==
    /\ company_tokens # {}
    /\ company_tokens = seen_entry[1]
    /\ RolesSimilar(role_prefix, seen_entry[2])

\* One company's tokens within the other's, and similar role prefixes.
SimilarCompanyRole(company_tokens, role_prefix, seen_entry) ==
    LET shared_tokens == company_tokens \cap seen_entry[1]
    IN  /\ shared_tokens # {}
        /\ shared_tokens = company_tokens \/ shared_tokens = seen_entry[1]
        /\ RolesSimilar(role_prefix, seen_entry[2])

\* A faulty variant of FuzzyDuplicate: the candidate's own entry is recorded
\* before the check, so it is compared with itself.
FuzzyDuplicate_RecordedFirst(row, seen) ==
    /\ CompanyLower(row) # <<>>
    /\ RolePrefix(row) # <<>>
    /\ \E s \in seen \cup {<<_company_tokens(OrEmpty(row.company)), RolePrefix(row)>>} :
          SimilarCompanyRole(_company_tokens(OrEmpty(row.company)), RolePrefix(row), s)

\* skip_this of the fuzzy company+role check
FuzzyDuplicate(row, seen) ==
    /\ CompanyLower(row) # <<>>
    /\ RolePrefix(row) # <<>>
    /\ \E s \in seen :
          SimilarCompanyRole(_company_tokens(OrEmpty(row.company)), RolePrefix(row), s)

MaxWorkExp(pages) == IF pages >= 2 THEN 6 ELSE 4

\* SelectedExperience(id, relevance_score = round(score, 3), reason): the score
\* is kept in thousandths, the reason text is not modelled.
SelectedExperience(row) == [id |-> row.id, relevance_score |-> row.score]

Candidate == scored_rows[next_row]

\* `continue` of the variant-group check: nothing is recorded.
DedupSkipGroup ==
    /\ pc = "dedup"
    /\ next_row <= Len(scored_rows)
    /\ GroupDuplicate(Candidate, seen_groups)
    /\ next_row' = next_row + 1
    /\ UNCHANGED <<service_state, dedup_state, store, args, selection_mode, pc, latest_upload_id, quota,
                   domain_keywords, rows, scored_rows, seen_groups,
                   seen_company_roles, selected, selected_education,
                   selected_projects, selected_activities, counts, total_lines,
                   trim_index, selected_skills>>

\* `continue` of the fuzzy check: the group's company was already overwritten.
DedupSkipFuzzy ==
    /\ pc = "dedup"
    /\ next_row <= Len(scored_rows)
    /\ ~GroupDuplicate(Candidate, seen_groups)
    /\ FuzzyDuplicate(Candidate, seen_company_roles)
    /\ seen_groups' = Put(seen_groups, GroupKey(Candidate), OrEmpty(Candidate.company))
    /\ next_row' = next_row + 1
    /\ UNCHANGED <<service_state, dedup_state, store, args, selection_mode, pc, latest_upload_id, quota,
                   domain_keywords, rows, scored_rows, seen_company_roles, selected,
                   selected_education, selected_projects, selected_activities,
                   counts, total_lines, trim_index, selected_skills>>

\* The candidate is selected; the loop breaks at the work-experience cap.
DedupSelect ==
    /\ pc = "dedup"
    /\ next_row <= Len(scored_rows)
    /\ ~GroupDuplicate(Candidate, seen_groups)
    /\ ~FuzzyDuplicate(Candidate, seen_company_roles)
    /\ seen_groups' = Put(seen_groups, GroupKey(Candidate), OrEmpty(Candidate.company))
    /\ seen_company_roles' =
          IF CompanyLower(Candidate) # <<>> /\ RolePrefix(Candidate) # <<>>
          THEN seen_company_roles
                  \cup {<<_company_tokens(OrEmpty(Candidate.company)), RolePrefix(Candidate)>>}
          ELSE seen_company_roles
    /\ selected' = Append(selected, SelectedExperience(Candidate))
    /\ IF Len(selected') >= MaxWorkExp(max_pages)
       THEN pc' = "education" /\ UNCHANGED next_row
       ELSE pc' = pc /\ next_row' = next_row + 1
    /\ UNCHANGED <<service_state, dedup_state, store, args, selection_mode, latest_upload_id, quota,
                   domain_keywords, rows, scored_rows, selected_education,
                   selected_projects, selected_activities, counts, total_lines,
                   trim_index, selected_skills>>

\* The loop ran out of candidates with something selected.
DedupDone ==
    /\ pc = "dedup"
    /\ next_row > Len(scored_rows)
    /\ selected # <<>>
    /\ pc' = "education"
    /\ UNCHANGED <<service_state, dedup_state, store, args, selection_mode, latest_upload_id, quota,
                   domain_keywords, ranking, selected, selected_education,
                   selected_projects, selected_activities, counts, total_lines,
                   trim_index, selected_skills>>

\* raise ValueError("No experiences with embeddings found. ...")
NoExperiences ==
    /\ pc = "dedup"
    /\ next_row > Len(scored_rows)
    /\ selected = <<>>
    /\ pc' = "raised_no_experiences"
    /\ UNCHANGED <<service_state, dedup_state, store, args, selection_mode, latest_upload_id, quota,
                   domain_keywords, ranking, selected, selected_education,
                   selected_projects, selected_activities, counts, total_lines,
                   trim_index, selected_skills>>

\* ORDER BY date_end DESC NULLS LAST, date_start DESC NULLS LAST: a is placed
\* before b (NoDate is below every date).
EduBefore(a, b) ==
    \/ a.date_end > b.date_end
    \/ a.date_end = b.date_end /\ a.date_start > b.date_start

EducationQuery ==
    LET IsMine(e) == e.user_id = user_id
        mine == SelectSeq(education, IsMine)
        Rank(i) == 1 + Cardinality({j \in 1..Len(mine) :
                        \/ EduBefore(mine[j], mine[i])
                        \/ ~EduBefore(mine[i], mine[j]) /\ j < i})
    IN  [p \in 1..Len(mine) |-> mine[CHOOSE i \in 1..Len(mine) : Rank(i) = p]]

is_university_level(edu) ==
    ContainsAny(UniversityKeywords,
                Lower(OrEmpty(edu.institution) \o <<" ">> \o OrEmpty(edu.degree)))

\* len(list) or len(dict.get("items", [])) of a truthy value, else nothing
JsonCount(v) == IF v.kind \in {"list", "dict"} THEN v.n ELSE 0

count_education_content(edu) == JsonCount(edu.achievements) + JsonCount(edu.modules)

\* A faulty variant of MaxByContent: the last maximal entry.
MaxByContent_Last(candidates) ==
    candidates[CHOOSE i \in 1..Len(candidates) :
        /\ \A j \in 1..Len(candidates) :
              count_education_content(candidates[j]) <= count_education_content(candidates[i])
        /\ \A j \in (i + 1)..Len(candidates) :
              count_education_content(candidates[j]) < count_education_content(candidates[i])]

\* max(candidates, key=count_education_content): the first maximal entry
MaxByContent(candidates) ==
    candidates[CHOOSE i \in 1..Len(candidates) :
        /\ \A j \in 1..Len(candidates) :
              count_education_content(candidates[j]) <= count_education_content(candidates[i])
        /\ \A j \in 1..(i - 1) :
              count_education_content(candidates[j]) < count_education_content(candidates[i])]

ChooseEducation(education_rows) ==
    IF education_rows = <<>> THEN <<>>
    ELSE LET preferred == SelectSeq(education_rows, is_university_level)
             candidates == IF preferred # <<>> THEN preferred ELSE education_rows
         IN  <<MaxByContent(candidates).id>>

SelectEducation ==
    /\ pc = "education"
    /\ selected_education' = ChooseEducation(EducationQuery)
    /\ pc' = "projects"
    /\ UNCHANGED <<service_state, dedup_state, store, args, selection_mode, latest_upload_id, quota,
                   domain_keywords, ranking, selected, selected_projects,
                   selected_activities, counts, total_lines, trim_index,
                   selected_skills>>

\* The project loop over the ranked rows: skip a seen variant group, skip a
\* seen name, stop at the limit. Returns the ids and the seen names.
RECURSIVE DedupProjects(_, _, _, _, _)
DedupProjects(rs, sel, names, groups, limit) ==
    IF rs = <<>> THEN [ids |-> sel, names |-> names]
    ELSE LET row == Head(rs)
             name_lower == Lower(Strip(OrEmpty(row.name)))
         IN  IF GroupKey(row) \in groups
             THEN DedupProjects(Tail(rs), sel, names, groups, limit)
             ELSE IF name_lower # <<>> /\ name_lower \in names
             THEN DedupProjects(Tail(rs), sel, names, groups, limit)
             ELSE IF Len(sel) + 1 >= limit
             THEN [ids |-> Append(sel, row.id),
                   names |-> IF name_lower # <<>> THEN names \cup {name_lower} ELSE names]
             ELSE DedupProjects(Tail(rs), Append(sel, row.id),
                                IF name_lower # <<>> THEN names \cup {name_lower} ELSE names,
                                groups \cup {GroupKey(row)}, limit)

\* The fallback loop over the unranked rows: names only.
RECURSIVE FallbackProjects(_, _, _, _)
FallbackProjects(rs, sel, names, limit) ==
    IF rs = <<>> THEN sel
    ELSE LET row == Head(rs)
             name_lower == Lower(Strip(OrEmpty(row.name)))
         IN  IF name_lower # <<>> /\ name_lower \in names
             THEN FallbackProjects(Tail(rs), sel, names, limit)
             ELSE IF Len(sel) + 1 >= limit
             THEN Append(sel, row.id)
             ELSE FallbackProjects(Tail(rs), Append(sel, row.id),
                                   IF name_lower # <<>> THEN names \cup {name_lower} ELSE names,
                                   limit)

\* selected_projects: the ranked rows deduplicated, else the unranked fetch.
\* A faulty variant of ChooseProjects: the fallback fetch ignores the upload filter.
ChooseProjects_UnscopedFallback(limit) ==
    LET ranked == DedupProjects(SimilarityQuery(projects, limit * Oversample),
                                <<>>, {}, {}, limit)
        Mine(row) == row.user_id = user_id
    IN  IF ranked.ids # <<>> THEN ranked.ids
        ELSE FallbackProjects(Limit(SelectSeq(projects, Mine), limit * Oversample),
                              <<>>, ranked.names, limit)

ChooseProjects(limit) ==
    LET ranked == DedupProjects(SimilarityQuery(projects, limit * Oversample),
                                <<>>, {}, {}, limit)
    IN  IF ranked.ids # <<>> THEN ranked.ids
        ELSE FallbackProjects(Limit(SelectSeq(projects, InScope), limit * Oversample),
                              <<>>, ranked.names, limit)

SelectProjects ==
    /\ pc = "projects"
    /\ selected_projects' = ChooseProjects(project_limit)
    /\ pc' = "activities"
    /\ UNCHANGED <<service_state, dedup_state, store, args, selection_mode, latest_upload_id, quota,
                   domain_keywords, ranking, selected, selected_education,
                   selected_activities, counts, total_lines, trim_index,
                   selected_skills>>

\* await db.execute(project_stmt, ...) raises (the database is external): no
\* handler surrounds the call, so the exception leaves select_experiences.
ProjectQueryFails ==
    /\ pc = "projects"
    /\ pc' = "raised_project_query"
    /\ UNCHANGED <<service_state, dedup_state, store, args, selection_mode, latest_upload_id, quota,
                   domain_keywords, ranking, selected, selected_education,
                   selected_projects, selected_activities, counts, total_lines,
                   trim_index, selected_skills>>

\* f"{org.strip().lower()}|{role_title.strip().lower()[:20]}"
ActivityKey(row) ==
    Lower(Strip(OrEmpty(row.organization))) \o <<"|">>
        \o Prefix(Lower(Strip(OrEmpty(row.role_title))), RolePrefixLen)

RECURSIVE DedupActivities(_, _, _, _, _)
DedupActivities(rs, sel, keys, groups, limit) ==
    IF rs = <<>> THEN sel
    ELSE LET row == Head(rs)
             has_org == Strip(OrEmpty(row.organization)) # <<>>
         IN  IF GroupKey(row) \in groups
             THEN DedupActivities(Tail(rs), sel, keys, groups, limit)
             ELSE IF ActivityKey(row) \in keys /\ has_org
             THEN DedupActivities(Tail(rs), sel, keys, groups, limit)
             ELSE IF Len(sel) + 1 >= limit
             THEN Append(sel, row.id)
             ELSE DedupActivities(Tail(rs), Append(sel, row.id),
                                  IF has_org THEN keys \cup {ActivityKey(row)} ELSE keys,
                                  groups \cup {GroupKey(row)}, limit)

\* A faulty variant of ChooseActivities: the unranked fetch is oversampled
\* like the ranked query and taken whole.
ChooseActivities_OversampledFallback(limit) ==
    LET ranked == DedupActivities(SimilarityQuery(activities, limit * Oversample),
                                  <<>>, {}, {}, limit)
        unranked == Limit(SelectSeq(activities, InScope), limit * Oversample)
    IN  IF ranked # <<>> THEN ranked
        ELSE [i \in 1..Len(unranked) |-> unranked[i].id]

\* selected_activities: the ranked rows deduplicated, else the first
\* activity_limit rows of the unranked fetch as they come.
ChooseActivities(limit) ==
    LET ranked == DedupActivities(SimilarityQuery(activities, limit * Oversample),
                                  <<>>, {}, {}, limit)
        unranked == Limit(SelectSeq(activities, InScope), limit)
    IN  IF ranked # <<>> THEN ranked
        ELSE [i \in 1..Len(unranked) |-> unranked[i].id]

SelectActivities ==
    /\ pc = "activities"
    /\ selected_activities' = ChooseActivities(activity_limit)
    /\ pc' = "count_lines"
    /\ UNCHANGED <<service_state, dedup_state, store, args, selection_mode, latest_upload_id, quota,
                   domain_keywords, ranking, selected, selected_education,
                   selected_projects, counts, total_lines, trim_index,
                   selected_skills>>

\* await db.execute(activity_stmt, ...) raises: as for the project query.
ActivityQueryFails ==
    /\ pc = "activities"
    /\ pc' = "raised_activity_query"
    /\ UNCHANGED <<service_state, dedup_state, store, args, selection_mode, latest_upload_id, quota,
                   domain_keywords, ranking, selected, selected_education,
                   selected_projects, selected_activities, counts, total_lines,
                   trim_index, selected_skills>>

\* ------------------------------------------------------- the page budget

\* The thresholds taken inclusively: 170 characters as 3 lines, 85 as 2.
RECURSIVE _estimate_rendered_lines_Inclusive(_)
_estimate_rendered_lines_Inclusive(bullet_texts) ==
    IF bullet_texts = <<>> THEN 0
    ELSE (IF Head(bullet_texts) >= 170 THEN 3
          ELSE IF Head(bullet_texts) >= 85 THEN 2
          ELSE 1) + _estimate_rendered_lines_Inclusive(Tail(bullet_texts))

\* >170 characters: 3 lines; >85: 2 lines; else 1 line, summed over the bullets.
RECURSIVE _estimate_rendered_lines(_)
_estimate_rendered_lines(bullet_texts) ==
    IF bullet_texts = <<>> THEN 0
    ELSE (IF Head(bullet_texts) > 170 THEN 3
          ELSE IF Head(bullet_texts) > 85 THEN 2
          ELSE 1) + _estimate_rendered_lines(Tail(bullet_texts))

\* bullets = row[1] or []; a non-list value counts 0 lines
BulletLines(row) ==
    IF row.bullets.is_list THEN _estimate_rendered_lines(row.bullets.items) ELSE 0

\* The dict built from SELECT id, bullets WHERE id IN (ids) AND user_id = :user_id
LineCounts(table, ids) ==
    LET hit == {i \in 1..Len(table) :
                   /\ table[i].user_id = user_id
                   /\ \E k \in 1..Len(ids) : ids[k] = table[i].id}
    IN  [id \in {table[i].id : i \in hit} |->
            BulletLines(table[CHOOSE i \in hit : table[i].id = id])]

\* sum of 1 + counts.get(id, default) over a list of ids
RECURSIVE SectionLines(_, _, _)
SectionLines(ids, counts_map, default_lines) ==
    IF ids = <<>> THEN 0
    ELSE 1 + Get(counts_map, Head(ids), default_lines)
           + SectionLines(Tail(ids), counts_map, default_lines)

MAX_RENDERED_LINES == LinesPerPage * max_pages

SelectedIds == [i \in 1..Len(selected) |-> selected[i].id]

CountLines ==
    /\ pc = "count_lines"
    /\ bullet_counts' = LineCounts(work_experiences, SelectedIds)
    /\ proj_bullet_counts' = LineCounts(projects, selected_projects)
    /\ act_bullet_counts' = LineCounts(activities, selected_activities)
    /\ total_lines' = SectionLines(SelectedIds, bullet_counts', 3)
                        + SectionLines(selected_projects, proj_bullet_counts', 2)
                        + SectionLines(selected_activities, act_bullet_counts', 3)
    /\ IF total_lines' > MAX_RENDERED_LINES
       THEN pc' = "trim" /\ trim_index' = 1
       ELSE pc' = "skills" /\ UNCHANGED trim_index
    /\ UNCHANGED <<service_state, dedup_state, store, args, selection_mode, latest_upload_id, quota,
                   domain_keywords, ranking, selected, selected_education,
                   selected_projects, selected_activities, selected_skills>>

\* A faulty variant of TrimOrder: projects first whatever the label.
TrimOrder_ProjectsFirst(tech) == <<"projects", "activities">>

\* trim_order: which section the k-th entry (k = 1, 2) trims.
TrimOrder(tech) ==
    IF tech THEN <<"activities", "projects">> ELSE <<"projects", "activities">>

ButLast(s) == SubSeq(s, 1, Len(s) - 1)

\* section_list.pop() while over budget, on the current section
TrimSection ==
    /\ pc = "trim"
    /\ trim_index \in {1, 2}
    /\ total_lines > MAX_RENDERED_LINES
    /\ IF TrimOrder(is_tech)[trim_index] = "activities"
       THEN /\ selected_activities # <<>>
            /\ selected_activities' = ButLast(selected_activities)
            /\ total_lines' = total_lines
                  - (1 + Get(act_bullet_counts, selected_activities[Len(selected_activities)], 3))
            /\ UNCHANGED selected_projects
       ELSE /\ selected_projects # <<>>
            /\ selected_projects' = ButLast(selected_projects)
            /\ total_lines' = total_lines
                  - (1 + Get(proj_bullet_counts, selected_projects[Len(selected_projects)], 2))
            /\ UNCHANGED selected_activities
    /\ UNCHANGED <<service_state, dedup_state, store, args, selection_mode, pc, latest_upload_id, quota,
                   domain_keywords, ranking, selected, selected_education, counts,
                   trim_index, selected_skills>>

\* A faulty variant of TrimNextSection: the section may be left while the
\* selection is still over budget and the section not empty.
TrimNextSection_Early ==
    /\ pc = "trim"
    /\ trim_index \in {1, 2}
    /\ trim_index' = trim_index + 1
    /\ UNCHANGED <<service_state, dedup_state, store, args, selection_mode, pc, latest_upload_id, quota,
                   domain_keywords, ranking, selected, selected_education,
                   selected_projects, selected_activities, counts, total_lines,
                   selected_skills>>

\* The while loop of the current section ends: on to the next entry.
TrimNextSection ==
    /\ pc = "trim"
    /\ trim_index \in {1, 2}
    /\ \/ total_lines <= MAX_RENDERED_LINES
       \/ IF TrimOrder(is_tech)[trim_index] = "activities"
          THEN selected_activities = <<>>
          ELSE selected_projects = <<>>
    /\ trim_index' = trim_index + 1
    /\ UNCHANGED <<service_state, dedup_state, store, args, selection_mode, pc, latest_upload_id, quota,
                   domain_keywords, ranking, selected, selected_education,
                   selected_projects, selected_activities, counts, total_lines,
                   selected_skills>>

\* Last resort: selected.pop() while over budget and more than 3 are left.
TrimExperience ==
    /\ pc = "trim"
    /\ trim_index = 3
    /\ total_lines > MAX_RENDERED_LINES
    /\ Len(selected) > 3
    /\ selected' = ButLast(selected)
    /\ total_lines' = total_lines - (1 + Get(bullet_counts, selected[Len(selected)].id, 3))
    /\ UNCHANGED <<service_state, dedup_state, store, args, selection_mode, pc, latest_upload_id, quota,
                   domain_keywords, ranking, selected_education, selected_projects,
                   selected_activities, counts, trim_index, selected_skills>>

TrimDone ==
    /\ pc = "trim"
    /\ trim_index = 3
    /\ ~(total_lines > MAX_RENDERED_LINES /\ Len(selected) > 3)
    /\ pc' = "skills"
    /\ UNCHANGED <<service_state, dedup_state, store, args, selection_mode, latest_upload_id, quota,
                   domain_keywords, ranking, selected, selected_education,
                   selected_projects, selected_activities, counts, total_lines,
                   trim_index, selected_skills>>

\* ------------------------------------------------------------ the skills

\* The lowercased terms of required_skills, nice_to_have_skills,
\* tools_and_technologies and keywords.
JdTerms ==
    LET all == jd_parsed.required_skills \o jd_parsed.nice_to_have_skills
                  \o jd_parsed.tools_and_technologies \o jd_parsed.keywords
    IN  {Lower(all[i]) : i \in DOMAIN all}

\* name_lower == term or name_lower in term or term in name_lower, for some term
IsJdMatch(name_lower, jd_terms) ==
    \E term \in jd_terms :
        name_lower = term \/ Contains(name_lower, term) \/ Contains(term, name_lower)

\* The partition loop: a name is recorded as seen before the category is
\* looked at. Returns jd_matched and non_matched, in row order.
RECURSIVE PartitionSkills(_, _, _, _, _)
PartitionSkills(rs, seen, matched, non_matched, jd_terms) ==
    IF rs = <<>> THEN [jd_matched |-> matched, non_matched |-> non_matched]
    ELSE LET row == Head(rs)
             name_lower == Lower(Strip(OrEmpty(row.name)))
         IN  IF name_lower \in seen \/ name_lower = <<>>
             THEN PartitionSkills(Tail(rs), seen, matched, non_matched, jd_terms)
             ELSE IF Lower(OrEmpty(row.category)) = <<"t", "o", "o", "l">>
             THEN PartitionSkills(Tail(rs), seen \cup {name_lower}, matched,
                                  non_matched, jd_terms)
             ELSE IF IsJdMatch(name_lower, jd_terms)
             THEN PartitionSkills(Tail(rs), seen \cup {name_lower},
                                  Append(matched, row), non_matched, jd_terms)
             ELSE PartitionSkills(Tail(rs), seen \cup {name_lower}, matched,
                                  Append(non_matched, row), jd_terms)

\* SELECT ... WHERE is_duplicate_of IS NULL AND user_id = :user_id
SkillQuery ==
    LET Wanted(s) == s.is_duplicate_of = NoId /\ s.user_id = user_id
    IN  SelectSeq(skills, Wanted)

\* jd_matched[:MAX_SKILLS], then non_matched into the remaining slots
CapSkills(jd_matched, non_matched) ==
    LET selected_skill_rows == Limit(jd_matched, MAX_SKILLS)
        remaining_slots == MAX_SKILLS - Len(selected_skill_rows)
    IN  IF remaining_slots > 0
        THEN selected_skill_rows \o Limit(non_matched, remaining_slots)
        ELSE selected_skill_rows

\* The ids selected from skill_rows, the rows in the order the query gave them.
ChooseSkillsFrom(skill_rows) ==
    LET parts == PartitionSkills(skill_rows, {}, <<>>, <<>>, JdTerms)
        chosen == CapSkills(parts.jd_matched, parts.non_matched)
    IN  [i \in 1..Len(chosen) |-> chosen[i].id]

ChooseSkills == ChooseSkillsFrom(SkillQuery)

SelectSkills ==
    /\ pc = "skills"
    /\ selected_skills' = ChooseSkills
    /\ pc' = "return"
    /\ UNCHANGED <<service_state, dedup_state, store, args, selection_mode, latest_upload_id, quota,
                   domain_keywords, ranking, selected, selected_education,
                   selected_projects, selected_activities, counts, total_lines,
                   trim_index>>

\* return SelectionResult(...): the five lists are the result.
Return ==
    /\ pc = "return"
    /\ pc' = "returned"
    /\ UNCHANGED <<service_state, dedup_state, store, args, selection_mode, latest_upload_id, quota,
                   domain_keywords, ranking, selected, selected_education,
                   selected_projects, selected_activities, counts, total_lines,
                   trim_index, selected_skills>>

Next ==
    \/ ResolveUpload
    \/ EmbedJD
    \/ EmbedJDFails
    \/ AssignQuota
    \/ BuildDomainKeywords
    \/ QueryExperiences
    \/ ScoreRows
    \/ DedupSkipGroup
    \/ DedupSkipFuzzy
    \/ DedupSelect
    \/ DedupDone
    \/ NoExperiences
    \/ SelectEducation
    \/ SelectProjects
    \/ ProjectQueryFails
    \/ SelectActivities
    \/ ActivityQueryFails
    \/ CountLines
    \/ TrimSection
    \/ TrimNextSection
    \/ TrimExperience
    \/ TrimDone
    \/ SelectSkills
    \/ Return

Spec == Init /\ [][Next]_vars

\* ================================================ the deduplication engine
\* src/backend/services/deduplicator.py, and the operations that call it or
\* change the rows it reads.  A row of `entities` is one row of one of the
\* three deduplicated tables; `text` stands for the string the engine embeds
\* and `embedding` for the stored vector (NoEmbedding is NULL).

Users == {"userA", "userB"}

\* Texts are numbered, and an entity is built from one.  Embeddings are unit vectors in a
\* plane; Angle[t] places the embedding of text t, and the cosine
\* similarity of two embeddings, in thousandths, falls with the angle
\* between them.
Angle == <<0, 80, 250, 40>>

embed_text(t) == t

Similarity(a, b) ==
    1000 - (IF Angle[a] > Angle[b] THEN Angle[a] - Angle[b] ELSE Angle[b] - Angle[a])

\* A uuid4() that hands out one value again and again.
uuid4_Repeated == 1000 + 0 * next_uuid

\* uuid.uuid4(): a value never handed out before.
uuid4 == 1000 + next_uuid

\* A row as its constructor and db.flush() leave it: no group, and
\* is_primary_variant at its column default.
EntityRow(id, user, table_name, t, embedding) ==
    [id |-> id, user_id |-> user, table_name |-> table_name, text |-> t,
     embedding |-> embedding, variant_group_id |-> NoId,
     is_primary_variant |-> TRUE]

\* _find_similar: the rows of the table with an embedding and a similarity
\* above the threshold, most similar first, at most five.  `db` is the table
\* contents in the order the database scans them, which decides the order of
\* rows of equal similarity.
_find_similar(db, table_name, embedding, threshold) ==
    LET hits == SelectSeq(db, LAMBDA r :
                    /\ r.table_name = table_name
                    /\ r.embedding # NoEmbedding
                    /\ Similarity(r.embedding, embedding) > threshold)
        sims == [i \in 1..Len(hits) |-> Similarity(hits[i].embedding, embedding)]
        ordered == SortDesc(hits, sims)
    IN  Limit([i \in 1..Len(ordered) |->
                  [id |-> ordered[i].id,
                   variant_group_id |-> ordered[i].variant_group_id,
                   similarity |-> Similarity(ordered[i].embedding, embedding)]],
              FindSimilarLimit)

\* _classify: the item as it is left and the DeduplicationResult returned;
\* uuids is the number of uuid4() values drawn.
_classify(similar, item, near_threshold) ==
    IF similar = <<>>
    THEN LET group_id == IF item.variant_group_id # NoId
                         THEN item.variant_group_id ELSE uuid4
         IN  [item |-> [item EXCEPT !.variant_group_id = group_id,
                                    !.is_primary_variant = TRUE],
              result |-> [action |-> "new", existing_id |-> NoId,
                          similarity_score |-> 0, variant_group_id |-> group_id],
              uuids |-> IF item.variant_group_id # NoId THEN 0 ELSE 1]
    ELSE LET best == similar[1]
             group_id == IF best.variant_group_id # NoId
                         THEN best.variant_group_id ELSE uuid4
         IN  [item |-> [item EXCEPT !.variant_group_id = group_id,
                                    !.is_primary_variant = FALSE],
              result |-> [action |-> IF best.similarity > near_threshold
                                     THEN "near_duplicate" ELSE "variant",
                          existing_id |-> best.id,
                          similarity_score |-> best.similarity,
                          variant_group_id |-> group_id],
              uuids |-> IF best.variant_group_id # NoId THEN 0 ELSE 1]

\* deduplicate_experience / deduplicate_project / deduplicate_activity: the
\* three differ in the table they search.  The search is a text() statement
\* and reads the rows as last flushed, so the embedding assigned to the item
\* here is not among them.
deduplicate(db, item) ==
    LET embedding == embed_text(item.text)
        similar == _find_similar(db, item.table_name, embedding, variant_threshold)
    IN  _classify(similar, [item EXCEPT !.embedding = embedding],
                  near_duplicate_threshold)

\* No selection is running.
SelectionIdle ==
    /\ work_experiences = <<>>
    /\ projects = <<>>
    /\ activities = <<>>
    /\ education = <<>>
    /\ skills = <<>>
    /\ cv_uploads = <<>>
    /\ jd_parsed = JDs[1]
    /\ max_pages = 1
    /\ selection_mode = "library"
    /\ pc = "idle"
    /\ latest_upload_id = NoId
    /\ is_tech = FALSE
    /\ is_consulting = FALSE
    /\ is_finance = FALSE
    /\ project_limit = 0
    /\ activity_limit = 0
    /\ domain_keywords = {}
    /\ rows = <<>>
    /\ scored_rows = <<>>
    /\ next_row = 1
    /\ seen_groups = <<>>
    /\ seen_company_roles = {}
    /\ selected = <<>>
    /\ selected_education = <<>>
    /\ selected_projects = <<>>
    /\ selected_activities = <<>>
    /\ bullet_counts = <<>>
    /\ proj_bullet_counts = <<>>
    /\ act_bullet_counts = <<>>
    /\ total_lines = 0
    /\ trim_index = 0
    /\ selected_skills = <<>>

\* ------------------- the engine applied to one item, and rows being deleted

\* The candidates for the i-th existing row (its id is i): of any user; the
\* first of either table and in any state a stored row can be in (embedded
\* or not, grouped or not, primary or not), the later ones primaries of
\* work_experiences with an embedding.
PoolRows(i) ==
    { [EntityRow(i, u, tn, t, IF st[1] THEN t ELSE NoEmbedding)
         EXCEPT !.variant_group_id = st[2], !.is_primary_variant = st[3]] :
        u \in Users,
        tn \in IF i = 1 THEN {"work_experiences", "activities"} ELSE {"work_experiences"},
        t \in DOMAIN Angle,
        st \in IF i = 1
               THEN {<<e, g, p>> \in BOOLEAN \X {NoId, 901} \X BOOLEAN : (g = NoId) => p}
               ELSE {<<TRUE, NoId, TRUE>>, <<TRUE, 900 + i, TRUE>>} }

RECURSIVE Pools(_)
Pools(n) ==
    IF n = 0 THEN {<<>>}
    ELSE {Append(p, r) : p \in Pools(n - 1), r \in PoolRows(n)}

\* The item handed to the engine (its id is 9): a work experience of userA,
\* flushed, new or already classified.
DedupItems ==
    { [EntityRow(9, "userA", "work_experiences", 1, IF st[1] THEN 1 ELSE NoEmbedding)
         EXCEPT !.variant_group_id = st[2], !.is_primary_variant = st[3]] :
        st \in {<<e, g, p>> \in BOOLEAN \X {NoId, 909} \X BOOLEAN : (g = NoId) => p} }

DedupInit ==
    /\ SelectionIdle
    /\ \E n \in 0..MaxPool : \E pool \in Pools(n) : \E item \in DedupItems :
           entities = Append(pool, item)
    /\ next_uuid = 1
    /\ dedup_result = NoResult
    /\ ServicesIdle

\* delete_experience (and its siblings for the other tables): the row goes.
DeleteEntity ==
    /\ \E i \in 1..Len(entities) :
           entities' = SelectSeq(entities, LAMBDA r : r.id # entities[i].id)
    /\ UNCHANGED <<next_uuid, dedup_result, selection_state, service_state>>

\* One call of deduplicate_experience (or its sibling for the row's table) on
\* the item, the last row; it may be called again on a row already classified.
Deduplicate ==
    /\ next_uuid <= MaxStored
    /\ entities # <<>>
    /\ \E db \in {entities, Reverse(entities)} :
           LET out == deduplicate(db, entities[Len(entities)])
           IN  /\ entities' = [entities EXCEPT ![Len(entities)] = out.item]
               /\ next_uuid' = next_uuid + out.uuids
               /\ dedup_result' = out.result
    /\ UNCHANGED <<selection_state, service_state>>

DedupNext ==
    \/ Deduplicate
    \/ DeleteEntity

DedupSpec == DedupInit /\ [][DedupNext]_vars

\* -------------------------------------- the operations that store entities

\* Every call site passes (db, item, user_id) to a function of two
\* parameters, which raises TypeError before the function body runs.
DedupCallRaises == Len(<<"db", "work_exp", "user_id">>) # Len(<<"db", "experience">>)

\* The process as it starts: empty tables, nothing selected, the services
\* idle.
StoreInit ==
    /\ SelectionIdle
    /\ entities = <<>>
    /\ next_uuid = 1
    /\ dedup_result = NoResult
    /\ ServicesIdle

\* parse_and_store_cv, for one parsed experience, project or activity: the
\* row is added and flushed, then deduplicated; if that raises, the row gets
\* a group of its own.
StoreEntity ==
    /\ next_uuid <= MaxStored
    /\ \E u \in Users, tn \in {"work_experiences", "projects", "activities"},
          t \in {1, 4} :
           LET row == EntityRow(2000 + next_uuid, u, tn, t, NoEmbedding)
               out == deduplicate(Append(entities, row), row)
           IN  IF DedupCallRaises
               THEN /\ entities' = Append(entities,
                                      [row EXCEPT !.variant_group_id = uuid4,
                                                  !.is_primary_variant = TRUE])
                    /\ dedup_result' = NoResult
               ELSE /\ entities' = Append(entities, out.item)
                    /\ dedup_result' = out.result
    /\ next_uuid' = next_uuid + 1
    /\ UNCHANGED <<selection_state, service_state>>

\* re_embed_all: every row of the user without an embedding gets one.
ReEmbedAll ==
    /\ \E u \in Users :
           /\ \E i \in 1..Len(entities) :
                  entities[i].user_id = u /\ entities[i].embedding = NoEmbedding
           /\ entities' =
                  [i \in 1..Len(entities) |->
                      IF entities[i].user_id = u /\ entities[i].embedding = NoEmbedding
                      THEN [entities[i] EXCEPT !.embedding = embed_text(entities[i].text)]
                      ELSE entities[i]]
    /\ UNCHANGED <<next_uuid, dedup_result, selection_state, service_state>>

\* reclassify_to_activities, for one experience: an Activity with the
\* experience's content and embedding is added and flushed, deduplicated
\* among the activities, and the experience is deleted.  The call is not in a
\* try block: when it raises, the request fails before db.commit() and the
\* session is closed with nothing written.
Reclassify ==
    /\ next_uuid <= MaxStored
    /\ \E i \in 1..Len(entities) :
           LET exp == entities[i]
               activity == EntityRow(2000 + next_uuid, exp.user_id, "activities",
                                     exp.text, exp.embedding)
               out == deduplicate(Append(entities, activity), activity)
           IN  /\ exp.table_name = "work_experiences"
               /\ IF DedupCallRaises
                  THEN /\ entities' = entities
                       /\ dedup_result' = [NoResult EXCEPT !.action = "TypeError"]
                  ELSE /\ entities' = Append(SelectSeq(entities, LAMBDA r : r.id # exp.id),
                                          out.item)
                       /\ dedup_result' = out.result
    /\ next_uuid' = next_uuid + 1
    /\ UNCHANGED <<selection_state, service_state>>

StoreNext ==
    \/ StoreEntity
    \/ ReEmbedAll
    \/ DeleteEntity
    \/ Reclassify

StoreSpec == StoreInit /\ [][StoreNext]_vars

\* ==================================================== the tailoring route
\* src/backend/api/routes/tailor.py: POST /api/tailor/run.  A request is
\* [user, pc]; the handler run_tailoring runs to its return without an await
\* after the application lookup, and the body of event_generator starts only
\* when the response is iterated, in a later step of the event loop.

\* run_pipeline is called with six positional arguments (tailor.py:102) and
\* has five parameters (graph.py:357-363): the call raises TypeError.
RunPipelineCallRaises ==
    Len(<<"application_id", "jd_raw", "db", "user_id", "on_step", "manual_selection">>)
        > Len(<<"application_id", "jd_raw", "db", "user_id", "on_step">>)

\* run_tailoring: 404 without the application, 409 when the user's key is in
\* the in-flight set, else the EventSourceResponse is returned.
RunTailoring ==
    /\ Len(requests) < MaxRequests
    /\ \E u \in Users, app \in BOOLEAN :
           requests' = Append(requests,
               [user |-> u,
                pc |-> IF ~app THEN "not_found"
                       ELSE IF u \in _active_tailoring THEN "rejected"
                       ELSE "accepted"])
    /\ UNCHANGED <<_active_tailoring, cache_state, retry_call, pipeline_state,
                   selection_state, dedup_state>>

\* event_generator up to its try block (lines 72-105): the key is added, then
\* run_pipeline(...) is called to build the task.  When the call raises, the
\* exception leaves the generator from outside the try, so the finally
\* clause of line 158 does not run.
EventGeneratorStarts(r, raises) ==
    /\ requests[r].pc = "accepted"
    /\ _active_tailoring' = _active_tailoring \cup {requests[r].user}
    /\ requests' = [requests EXCEPT ![r].pc = IF raises THEN "crashed" ELSE "streaming"]
    /\ UNCHANGED <<cache_state, retry_call, pipeline_state, selection_state, dedup_state>>

StartStream(r) == EventGeneratorStarts(r, RunPipelineCallRaises)

\* The stream of a running pipeline ends (lines 107-159): with the pipeline's
\* result or error, on the timeout, on cancellation by the client or on an
\* unexpected exception; the finally clause discards the key.
StreamEnds(r) ==
    /\ requests[r].pc = "streaming"
    /\ \E how \in {"complete", "error", "timeout", "cancelled", "exception"} :
           requests' = [requests EXCEPT ![r].pc = how]
    /\ _active_tailoring' = _active_tailoring \ {requests[r].user}
    /\ UNCHANGED <<cache_state, retry_call, pipeline_state, selection_state, dedup_state>>

TailorNext ==
    \/ RunTailoring
    \/ \E r \in DOMAIN requests : StartStream(r)

TailorSpec == StoreInit /\ [][TailorNext]_vars

\* The route with a run_pipeline that takes the call of line 102, so that
\* pipelines run.
StartStreamAccepted(r) == EventGeneratorStarts(r, FALSE)

StreamNext ==
    \/ RunTailoring
    \/ \E r \in DOMAIN requests : StartStreamAccepted(r)
    \/ \E r \in DOMAIN requests : StreamEnds(r)

StreamSpec == StoreInit /\ [][StreamNext]_vars

\* ========================================================= retry_openai
\* src/backend/utils.py:18-43.  retry_call is one call of a wrapped function:
\* script is the outcome of each invocation of the function so far, waits
\* the arguments of asyncio.sleep so far (milliseconds), attempt the loop
\* variable, last_exc the exception kept for the final raise.

Outcomes == {"ok", "RateLimitError", "APITimeoutError", "ValueError"}

Transient == {"RateLimitError", "APITimeoutError"}

RECURSIVE Pow2(_)
Pow2(k) == IF k = 0 THEN 1 ELSE 2 * Pow2(k - 1)

RetryWait_Linear(backoff, attempt) == backoff * (attempt + 1)

\* wait = backoff * (2 ** attempt), line 34.
RetryWait(backoff, attempt) == backoff * Pow2(attempt)

\* wrapper is called: last_exc = None and the loop starts at attempt 0.
CallWrapper ==
    /\ retry_call.pc \in {"idle", "done"}
    /\ \E n \in 1..MaxRetries, b \in {1000, 500, 250} :
           retry_call' = [NoCall EXCEPT !.max_retries = n, !.backoff = b, !.pc = "invoke"]
    /\ UNCHANGED <<tailor_state, cache_state, pipeline_state, selection_state, dedup_state>>

\* return await fn(...) and its except clause (lines 30-38): a value is
\* returned, a transient error is kept and the sleep begins, any other
\* exception leaves the wrapper.
Invoke ==
    /\ retry_call.pc = "invoke"
    /\ \E outcome \in Outcomes :
           retry_call' =
               [retry_call EXCEPT
                   !.script = Append(@, outcome),
                   !.invocations = @ + 1,
                   !.last_exc = IF outcome \in Transient THEN outcome ELSE @,
                   !.waits = IF outcome \in Transient
                             THEN Append(@, RetryWait(retry_call.backoff, retry_call.attempt))
                             ELSE @,
                   !.pc = IF outcome \in Transient THEN "sleep" ELSE "done",
                   !.result = IF outcome = "ok" THEN "returned"
                              ELSE IF outcome \in Transient THEN @
                              ELSE outcome]
    /\ UNCHANGED <<tailor_state, cache_state, pipeline_state, selection_state, dedup_state>>

\* asyncio.sleep(wait) returns: the next attempt, or raise last_exc when
\* range(max_retries) is exhausted (line 39).
SleepReturns ==
    /\ retry_call.pc = "sleep"
    /\ retry_call' =
           [retry_call EXCEPT
               !.attempt = @ + 1,
               !.pc = IF retry_call.attempt + 1 < retry_call.max_retries
                      THEN "invoke" ELSE "done",
               !.result = IF retry_call.attempt + 1 < retry_call.max_retries
                          THEN @ ELSE retry_call.last_exc]
    /\ UNCHANGED <<tailor_state, cache_state, pipeline_state, selection_state, dedup_state>>

RetryNext == CallWrapper \/ Invoke \/ SleepReturns

RetrySpec == StoreInit /\ [][RetryNext]_vars

\* ====================================================== embedding cache
\* src/backend/services/embedder.py.  _cache is the OrderedDict as the
\* sequence of its keys, least recently used first; a key is the text (its
\* sha256 hex digest in the code) and the value is determined by the key.
\* api_calls are the calls of _call_openai_embeddings awaited at the moment,
\* each the list of texts sent; cache_writes records the _cache_set calls
\* made when the last call returned.

CacheTexts == 1..MaxTexts

Cached(cache, key) == \E i \in 1..Len(cache) : cache[i] = key

\* _cache_get, lines 21-27: a hit moves the key to the end.
_cache_get(cache, key) ==
    IF Cached(cache, key)
    THEN Append(SelectSeq(cache, LAMBDA k : k # key), key)
    ELSE cache

\* _cache_set, lines 30-34: a full cache drops its first entry, whatever the
\* key; assigning to a key the OrderedDict holds keeps the key's position.
_cache_set(cache, key) ==
    LET room == IF Len(cache) >= _CACHE_MAX THEN Tail(cache) ELSE cache
    IN  IF Cached(room, key) THEN room ELSE Append(room, key)

RECURSIVE GetAll(_, _)
GetAll(cache, texts) ==
    IF texts = <<>> THEN cache
    ELSE GetAll(_cache_get(cache, Head(texts)), Tail(texts))

RECURSIVE SetAll(_, _)
SetAll(cache, texts) ==
    IF texts = <<>> THEN cache
    ELSE SetAll(_cache_set(cache, Head(texts)), Tail(texts))

\* The _cache_set calls of one returned API call, each with the cache it found.
RECURSIVE Writes(_, _)
Writes(cache, texts) ==
    IF texts = <<>> THEN <<>>
    ELSE <<[key |-> Head(texts), before |-> cache,
            after |-> _cache_set(cache, Head(texts))]>>
         \o Writes(_cache_set(cache, Head(texts)), Tail(texts))

\* embed_text / embed_texts up to the await (lines 58-61, 68-76): the lookups,
\* then one API call for the misses.  embed_text(t) is the one-text case;
\* a text may occur twice in texts.
EmbedTexts ==
    \E texts \in UNION {[1..n -> CacheTexts] : n \in 1..2} :
        LET misses == SelectSeq(texts, LAMBDA k : ~Cached(_cache, k))
        IN  /\ misses # <<>> => Len(api_calls) < MaxCalls
            /\ _cache' = GetAll(_cache, texts)
            /\ api_calls' = IF misses = <<>> THEN api_calls ELSE Append(api_calls, misses)
            /\ UNCHANGED <<cache_writes, tailor_state, retry_call, pipeline_state,
                           selection_state, dedup_state>>

\* An awaited API call returns its embeddings (lines 62, 77-79): one
\* _cache_set per text sent, with no await in between.
ApiReturns(c) ==
    /\ _cache' = SetAll(_cache, api_calls[c])
    /\ cache_writes' = Writes(_cache, api_calls[c])
    /\ api_calls' = SubSeq(api_calls, 1, c - 1) \o SubSeq(api_calls, c + 1, Len(api_calls))
    /\ UNCHANGED <<tailor_state, retry_call, pipeline_state, selection_state, dedup_state>>

\* An awaited API call raises (retries exhausted, or another error): nothing
\* is cached.
ApiFails(c) ==
    /\ api_calls' = SubSeq(api_calls, 1, c - 1) \o SubSeq(api_calls, c + 1, Len(api_calls))
    /\ UNCHANGED <<_cache, cache_writes, tailor_state, retry_call, pipeline_state,
                   selection_state, dedup_state>>

CacheNext ==
    \/ EmbedTexts
    \/ \E c \in DOMAIN api_calls : ApiReturns(c)
    \/ \E c \in DOMAIN api_calls : ApiFails(c)

CacheSpec == StoreInit /\ [][CacheNext]_vars

\* ========================================================= the pipeline
\* src/backend/agents/graph.py.  state is the PipelineState, state_kwargs the
\* keyword arguments it was created with, pipeline_pc the position of
\* run_pipeline in its loop (step 1..7; at "running": before the 'running'
\* report, "node": before the node function, "result": before the 'done' or
\* 'error' report), on_step whether a callback was given, reports the calls
\* of the callback, cv_versions the CvVersion rows committed since the run
\* began.

\* steps, lines 375-383.
StepNames ==
    <<"parsing_jd", "selecting_experiences", "analyzing_gaps", "tailoring_cv",
      "tailoring_projects", "checking_ats", "saving">>

\* What a node stores when its work succeeds; chosen is the list of
\* experiences select_experiences returned.  save_results_node sets
\* current_step = "complete" after its commit (lines 349-351).
NodeOutputs(i, s, chosen) ==
    CASE i = 1 -> [s EXCEPT !.jd_parsed = <<"parsed">>]
      [] i = 2 -> [s EXCEPT !.selection = chosen]
      [] i = 3 -> [s EXCEPT !.gap_analysis = <<"gaps">>]
      [] i = 4 -> [s EXCEPT !.tailored_experiences = <<"tailored">>]
      [] i = 5 -> [s EXCEPT !.tailored_projects = <<"tailored">>,
                            !.tailored_activities = <<"tailored">>]
      [] i = 6 -> [s EXCEPT !.ats_result = <<"ats">>]
      [] OTHER -> [s EXCEPT !.cv_version_id = "cv", !.current_step = "complete"]

\* The node function of step i: current_step is set first; every node but
\* parse_jd_node returns at once when state.error is set; analyze_gaps_node
\* and tailor_cv_node fail without selected experiences (lines 103-105,
\* 154-156); an exception inside the try becomes state.error.  In
\* save_results_node the exception may come after the flush, when
\* cv_version_id is already set (line 338).
NodeFn(i, s, outcome, chosen) ==
    LET entered == [s EXCEPT !.current_step = StepNames[i]]
    IN  IF i > 1 /\ entered.error # "None" THEN entered
        ELSE IF i \in {3, 4} /\ entered.selection = <<>>
            THEN [entered EXCEPT !.error = "No experiences selected"]
        ELSE IF outcome = "raises" THEN [entered EXCEPT !.error = "failed"]
        ELSE IF outcome = "raises_after_flush"
            THEN [entered EXCEPT !.error = "failed",
                                 !.cv_version_id = IF i = 7 THEN "cv" ELSE @]
        ELSE NodeOutputs(i, entered, chosen)

AfterReport_NoBreak(i, error) ==
    IF i < Len(StepNames) THEN [step |-> i + 1, at |-> "running"]
    ELSE [step |-> i, at |-> "returned"]

\* Lines 388-393: break on state.error, else the next step, or the return.
AfterReport(i, error) ==
    IF error # "None" THEN [step |-> i, at |-> "returned"]
    ELSE IF i < Len(StepNames) THEN [step |-> i + 1, at |-> "running"]
    ELSE [step |-> i, at |-> "returned"]

\* PipelineState(...) called on its own, as tests/test_pipeline_state.py does,
\* with and without max_pages and selection_mode.
Construct ==
    /\ pipeline_pc.at \in {"idle", "returned"}
    /\ \E u \in Users, mp \in 0..2, mode \in {"", "library", "latest_cv"}, jd \in {"", "jd"} :
           LET base == [application_id |-> "app1", user_id |-> u]
               k1 == IF mp = 0 THEN base ELSE base @@ [max_pages |-> mp]
               k2 == IF mode = "" THEN k1 ELSE k1 @@ [selection_mode |-> mode]
               kw == IF jd = "" THEN k2 ELSE k2 @@ [jd_raw |-> jd]
           IN  /\ state' = PipelineState(kw)
               /\ state_kwargs' = kw
    /\ pipeline_pc' = [step |-> 0, at |-> "idle"]
    /\ reports' = <<>>
    /\ UNCHANGED <<on_step, cv_versions, tailor_state, cache_state, retry_call,
                   selection_state, dedup_state>>

\* run_pipeline is called (line 373).
RunPipeline ==
    /\ pipeline_pc.at \in {"idle", "returned"}
    /\ \E u \in Users, cb \in BOOLEAN :
           LET kw == [application_id |-> "app1", jd_raw |-> "jd", user_id |-> u]
           IN  /\ state' = PipelineState(kw)
               /\ state_kwargs' = kw
               /\ on_step' = cb
    /\ pipeline_pc' = [step |-> 1, at |-> "running"]
    /\ reports' = <<>>
    /\ cv_versions' = 0
    /\ UNCHANGED <<tailor_state, cache_state, retry_call, selection_state, dedup_state>>

\* if on_step: await on_step(step_name, "running"), lines 385-386.
ReportRunning ==
    /\ pipeline_pc.at = "running"
    /\ reports' = IF on_step
                  THEN Append(reports, <<StepNames[pipeline_pc.step], "running">>)
                  ELSE reports
    /\ pipeline_pc' = [pipeline_pc EXCEPT !.at = "node"]
    /\ UNCHANGED <<state, state_kwargs, on_step, cv_versions, tailor_state, cache_state,
                   retry_call, selection_state, dedup_state>>

\* state = await node_fn(state, db), line 387.
RunNode ==
    /\ pipeline_pc.at = "node"
    /\ \E outcome \in {"ok", "raises", "raises_after_flush"}, chosen \in {<<>>, <<1>>} :
           /\ state' = NodeFn(pipeline_pc.step, state, outcome, chosen)
           /\ cv_versions' = IF state'.current_step = "complete"
                             THEN cv_versions + 1 ELSE cv_versions
    /\ pipeline_pc' = [pipeline_pc EXCEPT !.at = "result"]
    /\ UNCHANGED <<state_kwargs, on_step, reports, tailor_state, cache_state,
                   retry_call, selection_state, dedup_state>>

\* Lines 388-393: the 'error' report and the break, or the 'done' report.
ReportResult ==
    /\ pipeline_pc.at = "result"
    /\ reports' = IF on_step
                  THEN Append(reports, <<StepNames[pipeline_pc.step],
                                         IF state.error # "None" THEN "error" ELSE "done">>)
                  ELSE reports
    /\ pipeline_pc' = AfterReport(pipeline_pc.step, state.error)
    /\ UNCHANGED <<state, state_kwargs, on_step, cv_versions, tailor_state, cache_state,
                   retry_call, selection_state, dedup_state>>

PipelineNext ==
    \/ Construct
    \/ RunPipeline
    \/ ReportRunning
    \/ RunNode
    \/ ReportResult

PipelineSpec == StoreInit /\ [][PipelineNext]_vars

\* ============================================================== the claims

\* The row of a table with the given id.
RowOf(table, id) == table[CHOOSE i \in 1..Len(table) : table[i].id = id]

Returned == pc = "returned"

\* One header line plus the bullet lines of every listed entity, recounted
\* from the store: >170 characters 3 lines, >85 characters 2, else 1.
RECURSIVE RenderedLinesOf(_)
RenderedLinesOf(lens) ==
    IF lens = <<>> THEN 0
    ELSE (IF Head(lens) > 170 THEN 3 ELSE IF Head(lens) > 85 THEN 2 ELSE 1)
           + RenderedLinesOf(Tail(lens))

RECURSIVE EntityLines(_, _)
EntityLines(table, ids) ==
    IF ids = <<>> THEN 0
    ELSE 1 + (IF RowOf(table, Head(ids)).bullets.is_list
              THEN RenderedLinesOf(RowOf(table, Head(ids)).bullets.items) ELSE 0)
           + EntityLines(table, Tail(ids))

EstimatedRenderedLines ==
    EntityLines(work_experiences, SelectedIds)
        + EntityLines(projects, selected_projects)
        + EntityLines(activities, selected_activities)

\* C1: every returned selection is estimated at no more than 34 * max_pages
\* rendered lines, unless it has no projects, no activities and at most 3
\* experiences (the experience floor).
C1_BudgetInvariant ==
    Returned =>
        \/ EstimatedRenderedLines <= 34 * max_pages
        \/ /\ selected_projects = <<>>
           /\ selected_activities = <<>>
           /\ Len(selected) <= 3

\* C1 witness: a selection that was over budget, was trimmed through every
\* stage, and is returned within budget with a project still in it.
C1_Witness ==
    /\ Returned
    /\ trim_index = 3
    /\ selected_projects # <<>>
    /\ EstimatedRenderedLines <= 34 * max_pages
    /\ EstimatedRenderedLines > 34 * max_pages - 12

\* The text of a nullable column, lowercased.
LowerText(x) == Lower(OrEmpty(x))

SameGroupAndCompany(a, b) ==
    /\ a.variant_group_id # NoId
    /\ a.variant_group_id = b.variant_group_id
    /\ OrEmpty(a.company) # <<>>
    /\ LowerText(a.company) = LowerText(b.company)

\* C2: no two selected work experiences share both their variant_group_id and
\* their non-empty company name, compared case-insensitively.
C2_NoSameGroupSameCompany ==
    Returned =>
        \A i, j \in 1..Len(selected) :
            i < j => ~SameGroupAndCompany(RowOf(work_experiences, selected[i].id),
                                          RowOf(work_experiences, selected[j].id))

\* The lowercase words of a company name.
CompanyWords(row) == SplitWords(LowerText(row.company), <<>>, {})

\* The first 20 characters of the lowercased, trimmed role title.
RoleKey(row) == Prefix(Strip(LowerText(row.role_title)), 20)

\* Company word sets in a subset relation and role prefixes equal, or one
\* inside the other; for rows that have some company and some role text.
FuzzyPair(a, b) ==
    /\ CompanyWords(a) # {}
    /\ CompanyWords(b) # {}
    /\ RoleKey(a) # <<>>
    /\ RoleKey(b) # <<>>
    /\ CompanyWords(a) \subseteq CompanyWords(b) \/ CompanyWords(b) \subseteq CompanyWords(a)
    /\ \/ RoleKey(a) = RoleKey(b)
       \/ Contains(RoleKey(a), RoleKey(b))
       \/ Contains(RoleKey(b), RoleKey(a))

\* C3: no two selected work experiences with a company and a role title are
\* fuzzy duplicates of each other.
C3_NoFuzzyDuplicates ==
    Returned =>
        \A i, j \in 1..Len(selected) :
            i < j => ~FuzzyPair(RowOf(work_experiences, selected[i].id),
                                RowOf(work_experiences, selected[j].id))

\* C3 witness: a ranked candidate whose company words strictly contain those
\* of a selected experience with a similar role was left out of the result.
C3_Witness ==
    /\ Returned
    /\ \E k \in 1..Len(scored_rows), i \in 1..Len(selected) :
          /\ \A j \in 1..Len(selected) : selected[j].id # scored_rows[k].id
          /\ FuzzyPair(RowOf(work_experiences, selected[i].id), scored_rows[k])
          /\ CompanyWords(RowOf(work_experiences, selected[i].id)) # CompanyWords(scored_rows[k])

\* The domain label the selection settled on.
Label ==
    IF is_tech THEN "tech"
    ELSE IF is_consulting \/ is_finance THEN "consulting_or_finance"
    ELSE "default"

\* The (project, activity) quota table of the claim, 1 page / 2 or more pages.
ClaimedQuota ==
    CASE Label = "tech" -> (IF max_pages = 1 THEN <<3, 0>> ELSE <<5, 1>>)
      [] Label = "consulting_or_finance" -> (IF max_pages = 1 THEN <<0, 3>> ELSE <<2, 5>>)
      [] OTHER -> (IF max_pages = 1 THEN <<2, 1>> ELSE <<4, 2>>)

IsButLast(after, before) == before # <<>> /\ after = ButLast(before)

\* C5: while trimming, a list changes only by losing its last entry; for a
\* tech JD a project is removed only once the activities are empty, otherwise
\* an activity only once the projects are empty; an experience is removed
\* only once both are empty, and never leaves fewer than 3.
C5_TrimOrder ==
    [][pc = "trim" =>
          /\ selected_projects' = selected_projects
                \/ IsButLast(selected_projects', selected_projects)
          /\ selected_activities' = selected_activities
                \/ IsButLast(selected_activities', selected_activities)
          /\ selected' = selected \/ IsButLast(selected', selected)
          /\ (selected_projects' # selected_projects /\ is_tech)
                => selected_activities = <<>>
          /\ (selected_activities' # selected_activities /\ ~is_tech)
                => selected_projects = <<>>
          /\ selected' # selected
                => /\ selected_projects = <<>>
                   /\ selected_activities = <<>>
                   /\ Len(selected') >= 3
          /\ (selected' # selected \/ selected_projects' # selected_projects
                \/ selected_activities' # selected_activities)
                => total_lines > 34 * max_pages]_vars

\* C5 witness: a tech selection whose activities were all trimmed away and
\* which has then lost a project as well.
C5_Witness ==
    /\ pc = "trim"
    /\ is_tech
    /\ DOMAIN act_bullet_counts # {}
    /\ selected_activities = <<>>
    /\ Len(selected_projects) < Cardinality(DOMAIN proj_bullet_counts)

\* The work experiences the similarity query can return: embedded, of the
\* user and, in latest_cv mode, of the user's latest upload.
QueryCandidates ==
    {i \in 1..Len(work_experiences) :
        /\ work_experiences[i].embedded
        /\ work_experiences[i].user_id = user_id
        /\ selection_mode = "latest_cv"
              => work_experiences[i].upload_source_id = LatestUpload}

AfterDedup ==
    pc \in {"education", "projects", "activities", "count_lines", "trim", "skills",
            "return", "returned"}

\* C6: the operation raises the no-experiences error exactly when the
\* similarity query has no candidate, and otherwise carries at least one
\* selected experience through to the result.
C6_FailsIffNoCandidate ==
    /\ pc = "raised_no_experiences" => QueryCandidates = {}
    /\ AfterDedup => QueryCandidates # {} /\ selected # <<>>

\* C6 witness: the error is raised for a user who has work experiences, none
\* of which the query can return.
C6_Witness ==
    /\ pc = "raised_no_experiences"
    /\ \E i \in 1..Len(work_experiences) : work_experiences[i].user_id = user_id

\* The lowercase name of a skill, and whether it matches a JD term by
\* containment in either direction.
SkillName(row) == Strip(LowerText(row.name))

IsToolSkill(row) == LowerText(row.category) = <<"t", "o", "o", "l">>

JdMatching(row) ==
    \E term \in JdTerms :
        Contains(term, SkillName(row)) \/ Contains(SkillName(row), term)

\* A skill of the pool that selection may pick: the user's, not marked as a
\* duplicate, named, and not of category 'tool'.
EligibleSkill(row) ==
    /\ row.user_id = user_id
    /\ row.is_duplicate_of = NoId
    /\ SkillName(row) # <<>>
    /\ ~IsToolSkill(row)

SelectedSkillRow(i) == RowOf(skills, selected_skills[i])

\* The part of C7 about the list itself: at most 25 skills, no two with the
\* same lowercase name, none of category 'tool', JD-matching ones first.
SkillListShape ==
    /\ Len(selected_skills) <= 25
    /\ \A i, j \in 1..Len(selected_skills) :
          i < j => /\ SkillName(SelectedSkillRow(i)) # SkillName(SelectedSkillRow(j))
                   /\ ~(~JdMatching(SelectedSkillRow(i)) /\ JdMatching(SelectedSkillRow(j)))
    /\ \A i \in 1..Len(selected_skills) : ~IsToolSkill(SelectedSkillRow(i))

\* C7: selected_skills has at most 25 entries, no repeated lowercase name, no
\* 'tool' skill, every JD-matching skill before every non-matching one, and a
\* non-matching skill only when every eligible JD-matching skill of the pool
\* is included (by name).
C7_SkillSelection ==
    Returned =>
        /\ SkillListShape
        /\ (\E i \in 1..Len(selected_skills) : ~JdMatching(SelectedSkillRow(i)))
              => \A k \in 1..Len(skills) :
                    (EligibleSkill(skills[k]) /\ JdMatching(skills[k]))
                        => \E i \in 1..Len(selected_skills) :
                              SkillName(SelectedSkillRow(i)) = SkillName(skills[k])

\* The user's education rows, the university-level ones among them, and the
\* rows the choice is made among.
EducationPool == {i \in 1..Len(education) : education[i].user_id = user_id}

UniversityPool == {i \in EducationPool : is_university_level(education[i])}

ConsideredPool == IF UniversityPool # {} THEN UniversityPool ELSE EducationPool

\* a ended more recently than b, or ended on the same day (or both have no
\* end date) and started more recently; a missing date is the least recent.
MoreRecent(a, b) ==
    \/ a.date_end > b.date_end
    \/ a.date_end = b.date_end /\ a.date_start > b.date_start

ClaimedLabel ==
    IF ContainsAny(TechTerms, DomainContext) THEN "tech"
    ELSE IF ContainsAny(ConsultingTerms, DomainContext)
              \/ ContainsAny(FinanceTerms, DomainContext)
         THEN "consulting_or_finance"
    ELSE "default"

\* The label a pair of limits stands for, and the one the trim order serves.
QuotaLabel ==
    CASE <<project_limit, activity_limit>> \in {<<3, 0>>, <<5, 1>>} -> "tech"
      [] <<project_limit, activity_limit>> \in {<<0, 3>>, <<2, 5>>} -> "consulting_or_finance"
      [] <<project_limit, activity_limit>> \in {<<2, 1>>, <<4, 2>>} -> "default"
      [] OTHER -> "none"

AfterQuota == pc \notin {"resolve_upload", "embed_jd", "assign_quota", "raised_embedding"}

\* C9: the label behind the quotas and the trim order is tech when a tech term
\* occurs, even beside consulting or finance terms; else consulting-or-finance
\* when such a term occurs; else default.
C9_LabelPrecedence ==
    AfterQuota =>
        LET label == ClaimedLabel
        IN  /\ QuotaLabel = label
            /\ TrimOrder(is_tech)[1] = (IF label = "tech" THEN "activities" ELSE "projects")

\* C9 witness: a JD with a tech term and a finance term, given the tech quotas.
C9_Witness ==
    /\ AfterQuota
    /\ ContainsAny(TechTerms, DomainContext)
    /\ ContainsAny(FinanceTerms, DomainContext)
    /\ QuotaLabel = "tech"

\* C10: with JD domain 'quantitative finance', a candidate tagged
\* ['quantitative trading'] is scored at its similarity plus 0.08, and an
\* untagged candidate at its similarity.
C10_QuantBoost ==
    (pc = "dedup" /\ jd_parsed.domain = <<"q", "u", "a", "n", "t", "i", "t", "a", "t", "i", "v", "e", " ", "f", "i", "n", "a", "n", "c", "e">>)
        => \A k \in 1..Len(scored_rows) :
              LET row == RowOf(work_experiences, scored_rows[k].id)
              IN  /\ row.domain_tags = <<<<"q", "u", "a", "n", "t", "i", "t", "a", "t", "i", "v", "e", " ", "t", "r", "a", "d", "i", "n", "g">>>>
                        => scored_rows[k].score = row.similarity + 80
                  /\ row.domain_tags = <<>> => scored_rows[k].score = row.similarity

\* C11: every relevance_score of a result lies between 0 and 1 (scores are in
\* thousandths, so round(score, 3) keeps them), boosted candidates included.
C11_RelevanceRange ==
    Returned =>
        \A i \in 1..Len(selected) :
            0 <= selected[i].relevance_score /\ selected[i].relevance_score <= 1000

\* C12: identical pool, JD, mode and page budget give the same result in the
\* same order, also through the unordered skill query: had the query returned
\* the same skill rows in the opposite order, selected_skills would be the same.
C12_SameResultAnyRowOrder ==
    Returned => ChooseSkillsFrom(Reverse(SkillQuery)) = selected_skills

\* The user has no CvUpload row.
NoUploadOfUser == \A i \in 1..Len(cv_uploads) : cv_uploads[i].user_id # user_id

\* C13: called in 'latest_cv' mode for a user without uploads, the operation
\* does not raise for the missing upload and continues from exactly the state
\* a 'library' call with the same pool, JD and page budget continues from (mode
\* 'library', no upload filter, nothing else touched), so the results are equal.
C13_LatestCvFallsBackToLibrary ==
    [][(pc = "resolve_upload" /\ NoUploadOfUser
            /\ selection_mode \in {"latest_cv", "library"})
          => /\ pc' = "embed_jd"
             /\ selection_mode' = "library"
             /\ latest_upload_id' = NoId
             /\ UNCHANGED <<service_state, dedup_state, store, args, quota, domain_keywords, ranking, selected,
                            selected_education, selected_projects, selected_activities,
                            counts, total_lines, trim_index, selected_skills>>]_vars

\* C13 witness: a result that only a 'latest_cv' call produces (no input pairs
\* these uploads with another mode), for a user without uploads, holding
\* work experiences of two different uploads.
C13_Witness ==
    /\ \A inp \in FallbackInputs :
          inp.cv_uploads = cv_uploads => inp.selection_mode = "latest_cv"
    /\ Returned
    /\ NoUploadOfUser
    /\ cv_uploads # <<>>
    /\ selection_mode = "library"
    /\ latest_upload_id = NoId
    /\ \E i, j \in 1..Len(selected) :
          RowOf(work_experiences, selected[i].id).upload_source_id
              # RowOf(work_experiences, selected[j].id).upload_source_id
    /\ selected_projects # <<>>

\* The user's most recently created upload, by the claim's words.
MostRecentUpload ==
    CHOOSE i \in 1..Len(cv_uploads) :
        /\ cv_uploads[i].user_id = user_id
        /\ \A j \in 1..Len(cv_uploads) :
              cv_uploads[j].user_id = user_id
                  => cv_uploads[j].created_at <= cv_uploads[i].created_at

FromMostRecentUpload(table, id) ==
    RowOf(table, id).upload_source_id = cv_uploads[MostRecentUpload].id

\* C14: in latest_cv mode for a user with an upload, every selected work
\* experience, project and activity comes from that user's most recently
\* created upload, on the ranked and on the fallback paths.
C14_LatestCvScope ==
    (Returned /\ selection_mode = "latest_cv" /\ ~NoUploadOfUser) =>
        /\ \A i \in 1..Len(selected) : FromMostRecentUpload(work_experiences, selected[i].id)
        /\ \A i \in 1..Len(selected_projects) : FromMostRecentUpload(projects, selected_projects[i])
        /\ \A i \in 1..Len(selected_activities) :
              FromMostRecentUpload(activities, selected_activities[i])

\* C14 witness: a latest_cv result whose projects and activities came through
\* the fallback fetch, from tables that also hold the user's rows of an older
\* upload, and with a newer upload of another user on record.
C14_Witness ==
    /\ Returned
    /\ selection_mode = "latest_cv"
    /\ ~NoUploadOfUser
    /\ \E i \in 1..Len(cv_uploads) :
          cv_uploads[i].created_at > cv_uploads[MostRecentUpload].created_at
    /\ selected_projects # <<>>
    /\ selected_activities # <<>>
    /\ \A i \in 1..Len(projects) : ~projects[i].embedded
    /\ \A i \in 1..Len(activities) : ~activities[i].embedded
    /\ \E i \in 1..Len(projects) :
          /\ projects[i].user_id = user_id
          /\ projects[i].upload_source_id # cv_uploads[MostRecentUpload].id
    /\ \E i \in 1..Len(work_experiences) :
          /\ work_experiences[i].user_id = user_id /\ work_experiences[i].embedded
          /\ work_experiences[i].upload_source_id # cv_uploads[MostRecentUpload].id

\* C15: a failing similarity query for projects or for activities does not
\* abort the operation: select_experiences never ends in the exception of
\* such a query.
C15_SideQueryFailureDegrades ==
    pc \notin {"raised_project_query", "raised_activity_query"}

\* Two projects the claim calls duplicates: one variant group, or one
\* non-empty name up to case.
SameProject(a, b) ==
    \/ a.variant_group_id # NoId /\ a.variant_group_id = b.variant_group_id
    \/ OrEmpty(a.name) # <<>> /\ LowerText(a.name) = LowerText(b.name)

\* Two activities the claim calls duplicates: one variant group, or one
\* non-empty organization with one 20-character role prefix, up to case.
SameActivity(a, b) ==
    \/ a.variant_group_id # NoId /\ a.variant_group_id = b.variant_group_id
    \/ /\ OrEmpty(a.organization) # <<>>
       /\ LowerText(a.organization) = LowerText(b.organization)
       /\ Prefix(LowerText(a.role_title), 20) = Prefix(LowerText(b.role_title), 20)

\* C16: no two selected projects share a variant group or a non-empty name up
\* to case, and no two selected activities share a variant group or a key of
\* non-empty organization plus 20-character role prefix, whether the lists
\* come from the ranked query or from the unranked fallback fetch.
C16_NoDuplicateSideEntries ==
    Returned =>
        /\ \A i, j \in 1..Len(selected_projects) :
              i < j => ~SameProject(RowOf(projects, selected_projects[i]),
                                    RowOf(projects, selected_projects[j]))
        /\ \A i, j \in 1..Len(selected_activities) :
              i < j => ~SameActivity(RowOf(activities, selected_activities[i]),
                                     RowOf(activities, selected_activities[j]))

\* ---------------------------------------------------------------- C17
\* The item under deduplication, before and after the call.
Item == entities[Len(entities)]

ItemAfter == entities'[Len(entities)]

\* The stored rows the item is compared with: same table, with an embedding,
\* more similar to the item's text than the variant threshold.
Candidates ==
    {i \in 1..(Len(entities) - 1) :
        /\ entities[i].table_name = Item.table_name
        /\ entities[i].embedding # NoEmbedding
        /\ Similarity(entities[i].embedding, Item.text) > variant_threshold}

BestCandidates ==
    {i \in Candidates :
        \A j \in Candidates :
            Similarity(entities[j].embedding, Item.text)
                <= Similarity(entities[i].embedding, Item.text)}

NewItem == Item.variant_group_id = NoId /\ Item.embedding = NoEmbedding

GroupsOf(table) ==
    {table[i].variant_group_id : i \in 1..Len(table)} \ {NoId}

PrimariesOf(table, g) ==
    {i \in 1..Len(table) :
        table[i].variant_group_id = g /\ table[i].is_primary_variant}

\* C18: after any sequence of uploads, reclassifications and deletions, no
\* variant group has two entities with is_primary_variant = true.
C18_AtMostOnePrimary ==
    \A g \in GroupsOf(entities) : Cardinality(PrimariesOf(entities, g)) <= 1

\* Three uploads of the same text by the same user to the same table, the
\* second deleted again, the others embedded since.
C18_Witness ==
    /\ Len(entities) = 2
    /\ entities[1].id = 2001
    /\ entities[2].id = 2003
    /\ entities[1].user_id = entities[2].user_id
    /\ entities[1].table_name = entities[2].table_name
    /\ entities[1].text = entities[2].text
    /\ entities[1].embedding # NoEmbedding
    /\ entities[2].embedding # NoEmbedding
    /\ entities[1].is_primary_variant
    /\ entities[2].is_primary_variant

\* ---------------------------------------------------------------- C19
ExactlyOnePrimary(table) ==
    \A g \in GroupsOf(table) : Cardinality(PrimariesOf(table, g)) = 1

OwnRows == SelectSeq(entities, LAMBDA r : r.user_id = Item.user_id)

\* C20: the action, the variant_group_id and the primary flag that
\* deduplication gives an entity are those it gives when the tables hold the
\* rows of the entity's owner only, and the entity never gets the
\* variant_group_id of another user's entity.
C20_SameUserOnly ==
    [][(dedup_result = NoResult /\ dedup_result' # NoResult) =>
          /\ \E db \in {OwnRows, Reverse(OwnRows)} :
                 LET own == deduplicate(db, Item)
                 IN  /\ dedup_result'.action = own.result.action
                     /\ ItemAfter.variant_group_id = own.item.variant_group_id
                     /\ ItemAfter.is_primary_variant = own.item.is_primary_variant
          /\ \A i \in 1..(Len(entities) - 1) :
                 (entities[i].user_id # Item.user_id
                      /\ entities[i].variant_group_id # NoId)
                     => ItemAfter.variant_group_id # entities[i].variant_group_id]_vars

\* ---------------------------------------------------------------- C21
\* C21: a call of the deduplication on an entity that already carries its
\* stored embedding, variant_group_id and primary flag leaves its
\* variant_group_id and is_primary_variant as they were.
C21_Idempotent ==
    [][(Len(entities') = Len(entities) /\ entities # <<>>
            /\ Item.embedding = embed_text(Item.text)
            /\ Item.variant_group_id # NoId)
          => /\ ItemAfter.variant_group_id = Item.variant_group_id
             /\ ItemAfter.is_primary_variant = Item.is_primary_variant]_vars

\* ---------------------------------------------------------------- C22
\* C22: when the deduplication of a newly created entity fails, on upload or
\* on reclassification, the operation still completes: the entity is stored,
\* alone in a variant group of its own and primary; and no stored entity is
\* without a variant_group_id.
C22_DedupFailureFailsOpen ==
    [][(DedupCallRaises /\ next_uuid' # next_uuid) =>
          /\ \E i \in 1..Len(entities') :
                 /\ entities'[i].id = 2000 + next_uuid
                 /\ entities'[i].variant_group_id # NoId
                 /\ entities'[i].is_primary_variant
                 /\ \A j \in 1..Len(entities') :
                        entities'[j].variant_group_id = entities'[i].variant_group_id
                            => j = i
          /\ \A i \in 1..Len(entities') : entities'[i].variant_group_id # NoId]_vars

EligibleNames == {SkillName(skills[k]) : k \in {j \in 1..Len(skills) : EligibleSkill(skills[j])}}

\* C28: when the pool has at most 25 distinct eligible skill names (the
\* user's skills, not marked duplicates, named, not of category 'tool'),
\* every one of these names is the name of a selected skill.
C28_EveryNameRepresented ==
    (Returned /\ Cardinality(EligibleNames) <= MAX_SKILLS) =>
        \A name \in EligibleNames :
            \E i \in 1..Len(selected_skills) : SkillName(SelectedSkillRow(i)) = name

\* ---------------------------------------------------------------- C23
\* The requests of a user whose pipeline is running.
Running(u) ==
    {r \in DOMAIN requests : requests[r].user = u /\ requests[r].pc = "streaming"}

C25_BoundedRetry ==
    LET c == retry_call
        last == c.script[Len(c.script)]
    IN  /\ c.invocations = Len(c.script)
        /\ c.invocations <= c.max_retries
        /\ \A k \in 1..(Len(c.script) - 1) : c.script[k] \in Transient
        /\ \A k \in 1..Len(c.waits) :
               c.script[k] \in Transient /\ c.waits[k] = c.backoff * (2 ^ (k - 1))
        /\ c.pc = "invoke" =>
               /\ c.invocations < c.max_retries
               /\ Len(c.waits) = c.invocations
               /\ \A k \in 1..Len(c.script) : c.script[k] \in Transient
        /\ c.pc = "done" =>
               /\ c.script # <<>>
               /\ last = "ok" => c.result = "returned"
               /\ last \in Transient =>
                      c.invocations = c.max_retries /\ c.result = last
               /\ last \notin Transient \cup {"ok"} =>
                      c.result = last /\ Len(c.waits) = c.invocations - 1

\* Three transient errors in a row under max_retries = 3: the last is raised.
C25_Witness ==
    /\ retry_call.pc = "done" /\ retry_call.max_retries = 3
    /\ retry_call.script = <<"RateLimitError", "APITimeoutError", "RateLimitError">>
    /\ retry_call.result = "RateLimitError"
    /\ retry_call.waits = <<1000, 2000, 4000>>

\* ---------------------------------------------------------------- C24
\* C24: the cache never holds more than its capacity, and a _cache_set
\* removes an entry only when the cache is full and the key being set is
\* not cached yet, the entry removed being the least recently used one.
C24_FixedCapacityLRU ==
    /\ Len(_cache) <= _CACHE_MAX
    /\ \A i \in 1..Len(cache_writes) :
           LET w == cache_writes[i]
           IN  \A k \in CacheTexts :
                   (Cached(w.before, k) /\ ~Cached(w.after, k)) =>
                       /\ Len(w.before) >= _CACHE_MAX
                       /\ ~Cached(w.before, w.key)
                       /\ k = w.before[1]

\* ---------------------------------------------------------------- C26
\* C26: a PipelineState created with only application_id and user_id has
\* current_step 'pending', error None, cv_version_id '', jd_raw '', empty
\* jd_parsed, selection, gap_analysis, ats_result and tailored lists,
\* max_pages 1 and selection_mode 'library'; max_pages and selection_mode
\* given at creation are kept.
C26_Defaults ==
    (pipeline_pc.at = "idle" /\ state.application_id # "") =>
        /\ DOMAIN state_kwargs = {"application_id", "user_id"} =>
               /\ state.current_step = "pending" /\ state.error = "None"
               /\ state.cv_version_id = "" /\ state.jd_raw = ""
               /\ state.jd_parsed = <<>> /\ state.selection = <<>>
               /\ state.gap_analysis = <<>> /\ state.ats_result = <<>>
               /\ state.tailored_experiences = <<>> /\ state.tailored_projects = <<>>
               /\ state.tailored_activities = <<>>
               /\ "max_pages" \in DOMAIN state /\ state.max_pages = 1
               /\ "selection_mode" \in DOMAIN state /\ state.selection_mode = "library"
        /\ "max_pages" \in DOMAIN state_kwargs =>
               "max_pages" \in DOMAIN state /\ state.max_pages = state_kwargs.max_pages
        /\ "selection_mode" \in DOMAIN state_kwargs =>
               /\ "selection_mode" \in DOMAIN state
               /\ state.selection_mode = state_kwargs.selection_mode

\* ---------------------------------------------------------------- C29
\* The reports are 'running' then 'done' or 'error' of step 1, of step 2 and
\* so on, and an 'error' is the last report.
ReportsInOrder ==
    \A j \in 1..Len(reports) :
        /\ reports[j][1] = StepNames[(j + 1) \div 2]
        /\ j % 2 = 1 => reports[j][2] = "running"
        /\ j % 2 = 0 => reports[j][2] \in {"done", "error"}
        /\ reports[j][2] = "error" => j = Len(reports)

\* Once state.error is set, the step that set it is the last to have run, its
\* report is 'error' and no CvVersion is saved.
StopsAtFirstError ==
    (pipeline_pc.step > 0 /\ state.error # "None") =>
        /\ state.current_step = StepNames[pipeline_pc.step]
        /\ cv_versions = 0
        /\ pipeline_pc.at = "returned" =>
               (on_step => /\ Len(reports) = 2 * pipeline_pc.step
                           /\ reports[Len(reports)][2] = "error")

DoneReports == {j \in 1..Len(reports) : reports[j][2] = "done"}

\* C29 as stated: the seven steps run and report in their order, 'running'
\* before 'done' or 'error', nothing runs or is saved after the first error,
\* and current_step is 'complete' only after all seven steps reported 'done'.
C29_Original ==
    /\ ReportsInOrder
    /\ StopsAtFirstError
    /\ (on_step /\ state.current_step = "complete") =>
           Cardinality(DoneReports) = Len(StepNames)

\* C29: the seven steps run and report in their order, 'running' before
\* 'done' or 'error'; nothing runs or is saved after the first error;
\* current_step is 'complete' only after the first six steps reported 'done'
\* and the saving step committed its CvVersion without error, and the
\* 'done' of saving is the report that follows.
C29_PipelineOrder ==
    /\ ReportsInOrder
    /\ StopsAtFirstError
    /\ state.current_step = "complete" =>
           /\ pipeline_pc.step = Len(StepNames) /\ pipeline_pc.at \in {"result", "returned"}
           /\ state.error = "None" /\ cv_versions = 1
           /\ on_step => /\ Cardinality(DoneReports) >= Len(StepNames) - 1
                         /\ pipeline_pc.at = "returned" =>
                                Cardinality(DoneReports) = Len(StepNames)

\* A run with a callback that completed: fourteen reports, one CvVersion.
C29_Witness ==
    /\ pipeline_pc = [step |-> 7, at |-> "returned"] /\ on_step
    /\ Len(reports) = 14 /\ reports[14] = <<"saving", "done">>
    /\ state.current_step = "complete" /\ cv_versions = 1

====
